---- MODULE Spec2Model ----
(***************************************************************************)
(* Matching-and-messaging state machine of the TinderV2 backend:          *)
(* swipe evaluator (User.addSwipe behind POST /api/users/swipe), match     *)
(* aggregate (Models/Match.js, matchRoutes) and message ledger             *)
(* (Models/Message.js, messageRoutes).  Every await of a handler is a      *)
(* separate step, so requests handled by different slots interleave the    *)
(* way the event loop interleaves them.  A document save writes the        *)
(* fields the handler modified (array pushes as $push, scalars as $set),   *)
(* which is what a mongoose save sends.                                     *)
(***************************************************************************)
EXTENDS Integers, Sequences, FiniteSets, TLC

(* ---------------------------- bounds ----------------------------------- *)
NumUsers == 2
NumSlots == 2
MaxRequests == 2
MaxTicks == 1

UserIds == 1..NumUsers
Slots == 1..NumSlots
\* a well-formed ObjectId that names no user document
GhostId == NumUsers + 1
\* absent reference (null)
Nil == 0
\* absent or empty string
NoContent == ""
\* absent date (null)
NoDate == -1

(* ------------------------- ids and strings ----------------------------- *)
\* A request carries ids as 24-digit hex strings.  isMongoId accepts both
\* letter cases; an ObjectId prints itself in lower case.
HexStrings ==
  [id : UserIds, upper : BOOLEAN] \cup {[id |-> GhostId, upper |-> FALSE]}

ObjectIdToString(oid) == [id |-> oid, upper |-> FALSE]

CastObjectId(str) == str.id

\* serial: the clients send a request only after every earlier request has
\* been answered
\* rooms: the rooms of the socket server, as pairs of connection and room name;
\* received: the events delivered to connections
VARIABLES users, matches, messages, emitted, slot, started, now, serial,
          rooms, received

vars ==
  <<users, matches, messages, emitted, slot, started, now, serial, rooms,
    received>>

(* ------------------------------ helpers -------------------------------- *)
SeqToSet(s) == {s[i] : i \in 1..Len(s)}

Pull(s, x) == SelectSeq(s, LAMBDA e : e # x)

IdleSlot ==
  [pc |-> "idle", op |-> "none", user |-> Nil, reqUser |-> <<>>,
   targetUserId |-> Nil, action |-> "none", matchId |-> Nil,
   messageId |-> Nil, recipient |-> Nil, content |-> NoContent,
   imageUrl |-> FALSE, gifUrl |-> FALSE,
   messageType |-> "none", replyTo |-> Nil, stamp |-> 0,
   page |-> 0, limit |-> 0, result |-> <<>>,
   newUsers |-> <<>>, status |-> 0, message |-> NoContent,
   resMatch |-> FALSE, photoId |-> Nil, isMain |-> FALSE]

AtRest(p) == slot[p].pc = "idle"

Respond(p, code) ==
  slot' = [slot EXCEPT ![p].pc = "done", ![p].status = code]

Goto(p, label) == slot' = [slot EXCEPT ![p].pc = label]

(* --------------------------- socket server ----------------------------- *)
NumConns == 2

\* live connections (sockets)
Conns == 1..NumConns

\* io.to(room).emit(event, ...): every connection in the room gets the event,
\* and with nobody in the room nothing happens and nothing is kept
Deliver(es, except) ==
  UNION {{[conn |-> c, room |-> e.room, event |-> e.event, ref |-> e.ref] :
            c \in {d \in Conns \ except : <<d, e.room>> \in rooms}} : e \in es}

Emit(es) ==
  /\ emitted' = emitted \cup es
  /\ received' = received \cup Deliver(es, {})
  /\ UNCHANGED rooms

(* ------------------------------ Init ----------------------------------- *)
NewUser == [isActive |-> TRUE, swipedUsers |-> <<>>, matches |-> <<>>]

\* Match.js schema defaults
NewMatch(us, t) ==
  [users |-> us, messages |-> <<>>, lastMessage |-> Nil, lastActivity |-> t,
   isActive |-> TRUE, unmatchedBy |-> Nil, unmatchedAt |-> NoDate]

\* the schema defaults without the pre-save hook that sets the delivery flags
NewMessageUndelivered(m, from, to, c, ty, re, t) ==
  [match |-> m, sender |-> from, recipient |-> to, content |-> c,
   messageType |-> ty, imageUrl |-> FALSE, gifUrl |-> FALSE,
   isRead |-> FALSE, readAt |-> NoDate, isDelivered |-> FALSE,
   deliveredAt |-> NoDate, isActive |-> TRUE, editedAt |-> NoDate,
   replyTo |-> re, createdAt |-> t]

\* Message.js schema defaults, with the delivery flags the pre-save hook sets
NewMessage(m, from, to, c, ty, re, t) ==
  [match |-> m, sender |-> from, recipient |-> to, content |-> c,
   messageType |-> ty, imageUrl |-> FALSE, gifUrl |-> FALSE,
   isRead |-> FALSE, readAt |-> NoDate, isDelivered |-> TRUE,
   deliveredAt |-> t, isActive |-> TRUE, editedAt |-> NoDate, replyTo |-> re,
   createdAt |-> t]

Like(u) == [userId |-> u, action |-> "like"]

\* Stored states the handlers below produce from the empty database: nobody
\* has swiped; user 1 has liked user 2; user 2 has liked back (match 1);
\* user 1 has sent one message; user 1 has unmatched.
FreshDb ==
  [users |-> [u \in UserIds |-> NewUser], matches |-> <<>>, messages |-> <<>>]

LikedDb ==
  [FreshDb EXCEPT !.users[1].swipedUsers = <<Like(2)>>]

MatchedDb ==
  [LikedDb EXCEPT !.users[2].swipedUsers = <<Like(1)>>,
                  !.users[1].matches = <<1>>,
                  !.users[2].matches = <<1>>,
                  !.matches = <<NewMatch(<<2, 1>>, 0)>>]

ChattingDb ==
  [MatchedDb EXCEPT !.matches[1].messages = <<1>>,
                    !.matches[1].lastMessage = 1,
                    !.messages = <<NewMessage(1, 1, 2, "hi", "text", Nil, 0)>>]

UnmatchedDb ==
  [ChattingDb EXCEPT !.matches[1].isActive = FALSE,
                     !.matches[1].unmatchedBy = 1,
                     !.matches[1].unmatchedAt = 0,
                     !.users[1].matches = <<>>,
                     !.users[2].matches = <<>>,
                     !.messages[1].isActive = FALSE]

InitialDbs == {FreshDb, LikedDb, MatchedDb, ChattingDb, UnmatchedDb}

Init ==
  /\ \E db \in InitialDbs :
       /\ users = db.users
       /\ matches = db.matches
       /\ messages = db.messages
  /\ emitted = {}
  /\ rooms = {}
  /\ received = {}
  /\ slot = [p \in Slots |-> IdleSlot]
  /\ started = 0
  /\ now = 0
  /\ serial = FALSE

(* ------------------------------- time ---------------------------------- *)
\* 15 * 60 seconds
EditWindow == 900

TickSteps == {EditWindow - 1, EditWindow + 1}

\* only the age of a stored message is ever compared with the clock; it moves
\* in steps of a quarter of an hour, which no request answered in turn spans
Tick ==
  /\ messages # <<>>
  /\ serial => \A p \in Slots : slot[p].pc \in {"idle", "done"}
  /\ \E d \in TickSteps :
       /\ now + d <= MaxTicks * (EditWindow + 1)
       /\ now' = now + d
  /\ UNCHANGED <<users, matches, messages, emitted, rooms, received, slot,
                 started, serial>>

\* every other request has been answered
OthersAnswered(p) ==
  \A q \in Slots \ {p} : slot[q].pc \in {"idle", "done"}

(* ------------------------- auth middleware ----------------------------- *)
\* Middlewares/auth.js: resolves the token to the user's document, which the
\* handlers use as req.user.  A request is served by the lowest free slot.
Auth(p, u) ==
  /\ AtRest(p)
  /\ \A q \in Slots : q < p => ~AtRest(q)
  /\ started < MaxRequests
  /\ started' = started + 1
  /\ u \in UserIds
  /\ serial => OthersAnswered(p)
  /\ UNCHANGED serial

(* ---------------------- User.addSwipe (part_006) ----------------------- *)
\* this.swipedUsers.find(swipe => swipe.userId.toString() === targetUserId.toString())
ExistingSwipe(swipedUsers, targetUserId) ==
  \E i \in 1..Len(swipedUsers) :
    ObjectIdToString(swipedUsers[i].userId) = targetUserId

\* the liked-back test without the comparison of the entry's target
TargetUserLikedAnyone(swipedUsers, thisId) ==
  \E i \in 1..Len(swipedUsers) : swipedUsers[i].action = "like"

\* the liked-back test without the comparison of the entry's action
TargetUserSwipedBack(swipedUsers, thisId) ==
  \E i \in 1..Len(swipedUsers) :
    ObjectIdToString(swipedUsers[i].userId) = ObjectIdToString(thisId)

\* targetUser.swipedUsers.find(swipe => swipe.userId.toString() === this._id.toString()
\*                                       && swipe.action === 'like')
TargetUserLikedBack(swipedUsers, thisId) ==
  \E i \in 1..Len(swipedUsers) :
    /\ ObjectIdToString(swipedUsers[i].userId) = ObjectIdToString(thisId)
    /\ swipedUsers[i].action = "like"

(* ---------------------- Match model (Match.js) ------------------------- *)
\* the hook with "at least" in place of "exactly"
MatchPreSaveAtLeastTwo(us) == Len(us) >= 2

\* matchSchema.pre('save'): a match must have exactly 2 users
MatchPreSave(us) == Len(us) = 2

\* the match lookup without the isActive filter
FindUserMatchAnyState(matchId, userId) ==
  /\ matchId \in 1..Len(matches)
  /\ userId \in SeqToSet(matches[matchId].users)

\* the match lookup without the users condition
FindMatchAnyUser(matchId, userId) ==
  /\ matchId \in 1..Len(matches)
  /\ matches[matchId].isActive

\* Match.findOne({ _id: matchId, users: req.user._id, isActive: true })
FindUserMatch(matchId, userId) ==
  /\ matchId \in 1..Len(matches)
  /\ userId \in SeqToSet(matches[matchId].users)
  /\ matches[matchId].isActive

\* match.users.find(user => user._id.toString() !== req.user._id.toString())
OtherUser(matchId, userId) ==
  LET us == matches[matchId].users IN
  IF us[1] # userId THEN us[1]
  ELSE IF us[2] # userId THEN us[2]
  ELSE Nil

(* --------------------- Message model (Message.js) ---------------------- *)
RECURSIVE Reverse(_)
Reverse(s) == IF s = <<>> THEN <<>> ELSE Append(Reverse(Tail(s)), Head(s))

\* the listing without the isActive condition
GetMatchMessagesAnyState(matchId, page, limit) ==
  LET ids == [i \in 1..Len(messages) |-> i]
      hits == SelectSeq(ids, LAMBDA i : messages[i].match = matchId)
      sorted == Reverse(hits)
      skip == (page - 1) * limit
      last == IF Len(sorted) < skip + limit THEN Len(sorted) ELSE skip + limit
  IN SubSeq(sorted, skip + 1, last)

\* Message.getMatchMessages: find({ match, isActive: true }), newest first,
\* skip (page - 1) * limit, at most limit; the result is a list of ids
GetMatchMessages(matchId, page, limit) ==
  LET ids == [i \in 1..Len(messages) |-> i]
      hits == SelectSeq(ids, LAMBDA i : /\ messages[i].match = matchId
                                        /\ messages[i].isActive)
      sorted == Reverse(hits)
      skip == (page - 1) * limit
      last == IF Len(sorted) < skip + limit THEN Len(sorted) ELSE skip + limit
  IN SubSeq(sorted, skip + 1, last)

(* ------------------- POST /api/users/swipe (part_003) ------------------ *)
SwipeAuth(p, u, t, a) ==
  /\ Auth(p, u)
  /\ slot' = [slot EXCEPT ![p] =
       [IdleSlot EXCEPT !.pc = "swipe_findTarget", !.op = "swipe", !.user = u,
                        !.reqUser = users[u].swipedUsers,
                        !.targetUserId = t, !.action = a]]
  /\ UNCHANGED <<users, matches, messages, emitted, rooms, received, now>>

\* User.findOne({ _id: targetUserId, isActive: true })
SwipeFindTarget(p) ==
  /\ slot[p].pc = "swipe_findTarget"
  /\ LET tid == CastObjectId(slot[p].targetUserId) IN
     IF tid \in UserIds /\ users[tid].isActive
       THEN Goto(p, "swipe_addSwipe")
       ELSE Respond(p, 404)
  /\ UNCHANGED <<users, matches, messages, emitted, rooms, received, started,
                 serial, now>>

\* self check of the route, then addSwipe up to its first save
SwipeAddSwipe(p) ==
  /\ slot[p].pc = "swipe_addSwipe"
  /\ LET s == slot[p]
         tid == CastObjectId(s.targetUserId) IN
     IF s.targetUserId = ObjectIdToString(s.user)
       THEN /\ Respond(p, 400)
            /\ UNCHANGED users
     ELSE IF ExistingSwipe(s.reqUser, s.targetUserId)
       THEN /\ Respond(p, 400)
            /\ UNCHANGED users
     ELSE /\ users' = [users EXCEPT ![s.user].swipedUsers =
                          Append(@, [userId |-> tid, action |-> s.action])]
          /\ IF s.action = "like"
               THEN Goto(p, "swipe_findTargetUser")
               ELSE Respond(p, 200)
  /\ UNCHANGED <<matches, messages, emitted, rooms, received, started, serial,
                 now>>

\* a liked-back test on a copy of the target that misses its newest swipe
SwipeFindTargetUserStale(p) ==
  /\ slot[p].pc = "swipe_findTargetUser"
  /\ LET s == slot[p]
         tid == CastObjectId(s.targetUserId)
         stored == users[tid].swipedUsers
         stale == SubSeq(stored, 1, Len(stored) - 1) IN
     IF TargetUserLikedBack(stale, s.user)
       THEN Goto(p, "swipe_matchSave")
       ELSE Respond(p, 200)
  /\ UNCHANGED <<users, matches, messages, emitted, rooms, received, started,
                 serial, now>>

\* mongoose.model('User').findById(targetUserId) and the liked-back test
SwipeFindTargetUser(p) ==
  /\ slot[p].pc = "swipe_findTargetUser"
  /\ LET s == slot[p]
         tid == CastObjectId(s.targetUserId) IN
     IF TargetUserLikedBack(users[tid].swipedUsers, s.user)
       THEN Goto(p, "swipe_matchSave")
       ELSE Respond(p, 200)
  /\ UNCHANGED <<users, matches, messages, emitted, rooms, received, started,
                 serial, now>>

\* new Match({ users: [this._id, targetUserId] }).save()
SwipeMatchSave(p) ==
  /\ slot[p].pc = "swipe_matchSave"
  /\ LET s == slot[p]
         us == <<s.user, CastObjectId(s.targetUserId)>> IN
     IF MatchPreSave(us)
       THEN /\ matches' = Append(matches, NewMatch(us, now))
            /\ slot' = [slot EXCEPT ![p].pc = "swipe_saveThis",
                                    ![p].matchId = Len(matches) + 1]
       ELSE /\ Respond(p, 500)
            /\ UNCHANGED matches
  /\ UNCHANGED <<users, messages, emitted, rooms, received, started, serial,
                 now>>

\* this.matches.push(match._id); await this.save()
SwipeSaveThis(p) ==
  /\ slot[p].pc = "swipe_saveThis"
  /\ users' = [users EXCEPT ![slot[p].user].matches = Append(@, slot[p].matchId)]
  /\ Goto(p, "swipe_saveTarget")
  /\ UNCHANGED <<matches, messages, emitted, rooms, received, started, serial,
                 now>>

\* targetUser.matches.push(match._id); await targetUser.save()
SwipeSaveTarget(p) ==
  /\ slot[p].pc = "swipe_saveTarget"
  /\ users' = [users EXCEPT ![CastObjectId(slot[p].targetUserId)].matches =
                  Append(@, slot[p].matchId)]
  /\ Goto(p, "swipe_respond")
  /\ UNCHANGED <<matches, messages, emitted, rooms, received, started, serial,
                 now>>

\* io.to(targetUserId).emit('new_match', ...) and the 200 response
SwipeRespond(p) ==
  /\ slot[p].pc = "swipe_respond"
  /\ Emit({[room |-> slot[p].targetUserId, event |-> "new_match",
            ref |-> slot[p].matchId]})
  /\ slot' = [slot EXCEPT ![p].pc = "done", ![p].status = 200,
                          ![p].resMatch = TRUE]
  /\ UNCHANGED <<users, matches, messages, started, serial, now>>

\* this.save() or targetUser.save() rejects after the match was saved:
\* addSwipe throws, the route's catch answers 500, and the saved match stays
SwipeWriteFails(p) ==
  /\ slot[p].pc \in {"swipe_saveThis", "swipe_saveTarget"}
  /\ Respond(p, 500)
  /\ UNCHANGED <<users, matches, messages, emitted, rooms, received, started,
                 serial, now>>

Swipe(p) ==
  \/ \E u \in UserIds, t \in HexStrings, a \in {"like", "pass"} :
       SwipeAuth(p, u, t, a)
  \/ SwipeFindTarget(p)
  \/ SwipeAddSwipe(p)
  \/ SwipeFindTargetUser(p)
  \/ SwipeMatchSave(p)
  \/ SwipeSaveThis(p)
  \/ SwipeSaveTarget(p)
  \/ SwipeRespond(p)

(* -------------- DELETE /api/auth/delete-account (part_005) ------------- *)
\* User.findByIdAndUpdate(req.user._id, { isActive: false, ... })
DeleteAccount(p) ==
  \E u \in UserIds :
    /\ Auth(p, u)
    /\ users[u].isActive
    /\ users' = [users EXCEPT ![u].isActive = FALSE]
    /\ slot' = [slot EXCEPT ![p] =
         [IdleSlot EXCEPT !.pc = "done", !.op = "deleteAccount", !.user = u,
                          !.status = 200]]
    /\ UNCHANGED <<matches, messages, emitted, rooms, received, now>>

(* --------------- DELETE /api/matches/:matchId (part_002) --------------- *)
UnmatchFind(p, u, m) ==
  /\ Auth(p, u)
  /\ slot' = [slot EXCEPT ![p] =
       [IdleSlot EXCEPT !.op = "unmatch", !.user = u, !.matchId = m,
                        !.pc = IF FindUserMatch(m, u) THEN "unmatch_save"
                               ELSE "done",
                        !.status = IF FindUserMatch(m, u) THEN 0 ELSE 404,
                        !.message = IF FindUserMatch(m, u) THEN NoContent
                                    ELSE "Match not found"]]
  /\ UNCHANGED <<users, matches, messages, emitted, rooms, received, now>>

\* Match.unmatch: isActive = false; unmatchedBy = userId; unmatchedAt; save()
UnmatchSave(p) ==
  /\ slot[p].pc = "unmatch_save"
  /\ matches' = [matches EXCEPT ![slot[p].matchId].isActive = FALSE,
                                ![slot[p].matchId].unmatchedBy = slot[p].user,
                                ![slot[p].matchId].unmatchedAt = now]
  /\ Goto(p, "unmatch_pullUsers")
  /\ UNCHANGED <<users, messages, emitted, rooms, received, started, serial,
                 now>>

\* the pull applied to the requesting user's document only
UnmatchPullSelf(p) ==
  /\ slot[p].pc = "unmatch_pullUsers"
  /\ users' = [users EXCEPT ![slot[p].user].matches = Pull(@, slot[p].matchId)]
  /\ Goto(p, "unmatch_messages")
  /\ UNCHANGED <<matches, messages, emitted, rooms, received, started, serial,
                 now>>

\* User.updateMany({ _id: { $in: this.users } }, { $pull: { matches: this._id } })
UnmatchPullUsers(p) ==
  /\ slot[p].pc = "unmatch_pullUsers"
  /\ LET m == slot[p].matchId IN
     users' = [u \in UserIds |->
                 IF u \in SeqToSet(matches[m].users)
                   THEN [users[u] EXCEPT !.matches = Pull(@, m)]
                   ELSE users[u]]
  /\ Goto(p, "unmatch_messages")
  /\ UNCHANGED <<matches, messages, emitted, rooms, received, started, serial,
                 now>>

\* Message.updateMany({ match: this._id }, { isActive: false })
UnmatchMessages(p) ==
  /\ slot[p].pc = "unmatch_messages"
  /\ messages' = [i \in 1..Len(messages) |->
                    IF messages[i].match = slot[p].matchId
                      THEN [messages[i] EXCEPT !.isActive = FALSE]
                      ELSE messages[i]]
  /\ Goto(p, "unmatch_respond")
  /\ UNCHANGED <<users, matches, emitted, rooms, received, started, serial,
                 now>>

\* io.to(otherUserId.toString()).emit('unmatched', ...) and the 200 response;
\* with no other user in the match, otherUserId.toString() throws
UnmatchRespond(p) ==
  /\ slot[p].pc = "unmatch_respond"
  /\ LET other == OtherUser(slot[p].matchId, slot[p].user) IN
     IF other = Nil
       THEN /\ Respond(p, 500)
            /\ UNCHANGED <<emitted, rooms, received>>
       ELSE /\ Emit({[room |-> ObjectIdToString(other), event |-> "unmatched",
                      ref |-> slot[p].matchId]})
            /\ Respond(p, 200)
  /\ UNCHANGED <<users, matches, messages, started, serial, now>>

\* one of the three writes of Match.unmatch rejects: the route's catch
\* answers 500 and nothing written before is taken back
UnmatchWriteFails(p) ==
  /\ slot[p].pc \in {"unmatch_save", "unmatch_pullUsers", "unmatch_messages"}
  /\ Respond(p, 500)
  /\ UNCHANGED <<users, matches, messages, emitted, rooms, received, started,
                 serial, now>>

Unmatch(p) ==
  \/ \E u \in UserIds, m \in 1..(Len(matches) + 1) : UnmatchFind(p, u, m)
  \/ UnmatchSave(p)
  \/ UnmatchPullUsers(p)
  \/ UnmatchMessages(p)
  \/ UnmatchRespond(p)

(* ------------- messageSchema.post('save') (Message.js) ----------------- *)
\* const match = await Match.findById(doc.match)
PostSaveFindMatch(p) ==
  /\ slot[p].pc = "postSave_findMatch"
  /\ slot' = [slot EXCEPT ![p].pc = "postSave_addMessage", ![p].stamp = now]
  /\ UNCHANGED <<users, matches, messages, emitted, rooms, received, started,
                 serial, now>>

\* an update that writes the list back without the ids stored after this
\* message's own
PostSaveAddMessageStale(p) ==
  /\ slot[p].pc = "postSave_addMessage"
  /\ LET m == messages[slot[p].messageId].match IN
     matches' = [matches EXCEPT
                   ![m].messages =
                     Append(SelectSeq(@, LAMBDA x : x < slot[p].messageId),
                            slot[p].messageId),
                   ![m].lastMessage = slot[p].messageId,
                   ![m].lastActivity = slot[p].stamp]
  /\ Goto(p, "respond_" \o slot[p].op)
  /\ UNCHANGED <<users, messages, emitted, rooms, received, started, serial,
                 now>>

\* Match.addMessage: messages.push(id); lastMessage = id; lastActivity; save()
PostSaveAddMessage(p) ==
  /\ slot[p].pc = "postSave_addMessage"
  /\ LET m == messages[slot[p].messageId].match IN
     matches' = [matches EXCEPT ![m].messages = Append(@, slot[p].messageId),
                                ![m].lastMessage = slot[p].messageId,
                                ![m].lastActivity = slot[p].stamp]
  /\ Goto(p, "respond_" \o slot[p].op)
  /\ UNCHANGED <<users, messages, emitted, rooms, received, started, serial,
                 now>>

\* findById or match.save() rejects: the hook's catch logs the error and the
\* save of the message resolves
PostSaveFails(p) ==
  /\ slot[p].pc \in {"postSave_findMatch", "postSave_addMessage"}
  /\ Goto(p, "respond_" \o slot[p].op)
  /\ UNCHANGED <<users, matches, messages, emitted, rooms, received, started,
                 serial, now>>

PostSave(p) ==
  \/ PostSaveFindMatch(p)
  \/ PostSaveAddMessage(p)

(* ------------------- POST /api/messages (messageRoutes) ---------------- *)
\* maxlength of content
MaxContentLength == 1000

\* a text of MaxContentLength + 1 characters
LongContent == "long"

\* request bodies: content absent, plain, padded with blanks, too long
Contents == {NoContent, "hi", " hi ", LongContent}
MessageTypes == {"text", "image", "gif"}

\* String.prototype.trim and the validator's trim()
Trim(c) == IF c = " hi " THEN "hi" ELSE c

ContentLength(c) ==
  CASE c = NoContent -> 0
    [] c = " hi " -> 4
    [] c = LongContent -> MaxContentLength + 1
    [] OTHER -> 2

\* trim().isLength({ min: 1, max: 1000 })
IsLengthOk(c) == ContentLength(Trim(c)) \in 1..MaxContentLength

\* the body of a send request: a text carries content only, an image or a
\* gif carries its url or nothing
Payloads ==
  [messageType : {"text"}, content : Contents,
   imageUrl : {FALSE}, gifUrl : {FALSE}]
  \cup [messageType : {"image"}, content : {NoContent},
        imageUrl : BOOLEAN, gifUrl : {FALSE}]
  \cup [messageType : {"gif"}, content : {NoContent},
        imageUrl : {FALSE}, gifUrl : BOOLEAN]

\* body('content').optional().trim().isLength(...)
ValidationOk(b) == b.content = NoContent \/ IsLengthOk(b.content)

\* the payload check with the text case only
PayloadOkTextOnly(b) ==
  b.messageType = "text" => Trim(b.content) # NoContent

\* the type-conditional payload check of the route
PayloadOk(b) ==
  /\ b.messageType = "text" => Trim(b.content) # NoContent
  /\ b.messageType = "image" => b.imageUrl
  /\ b.messageType = "gif" => b.gifUrl

\* the message of the payload check that refuses the body
PayloadMessage(b) ==
  CASE b.messageType = "text" -> "Text messages require content"
    [] b.messageType = "image" -> "Image messages require imageUrl"
    [] OTHER -> "GIF messages require gifUrl"

SendFindMatch(p, u, m, b, re) ==
  /\ Auth(p, u)
  /\ LET code == IF ~ValidationOk(b) THEN 400
                 ELSE IF ~FindUserMatch(m, u) THEN 404
                 ELSE IF ~PayloadOk(b) THEN 400
                 ELSE 0
         next == IF code # 0 THEN "done"
                 ELSE IF re # Nil THEN "send_findReply"
                 ELSE "send_save" IN
     slot' = [slot EXCEPT ![p] =
       [IdleSlot EXCEPT !.pc = next, !.op = "send", !.user = u, !.matchId = m,
                        !.recipient = IF code = 0 THEN OtherUser(m, u) ELSE Nil,
                        !.content = b.content, !.messageType = b.messageType,
                        !.imageUrl = b.imageUrl, !.gifUrl = b.gifUrl,
                        !.replyTo = re, !.status = code,
                        !.message =
                          IF ~ValidationOk(b) THEN "Validation errors"
                          ELSE IF ~FindUserMatch(m, u) THEN "Match not found"
                          ELSE IF ~PayloadOk(b) THEN PayloadMessage(b)
                          ELSE NoContent]]
  /\ UNCHANGED <<users, matches, messages, emitted, rooms, received, now>>

\* the lookup of the replied-to message without the match condition
FindReplyAnyMatch(replyTo, matchId) ==
  /\ replyTo \in 1..Len(messages)
  /\ messages[replyTo].isActive

\* Message.findOne({ _id: replyTo, match: matchId, isActive: true })
FindReplyMessage(replyTo, matchId) ==
  /\ replyTo \in 1..Len(messages)
  /\ messages[replyTo].match = matchId
  /\ messages[replyTo].isActive

SendFindReply(p) ==
  /\ slot[p].pc = "send_findReply"
  /\ IF FindReplyMessage(slot[p].replyTo, slot[p].matchId)
       THEN Goto(p, "send_save")
       ELSE slot' = [slot EXCEPT ![p].pc = "done", ![p].status = 404,
                                 ![p].message = "Reply message not found"]
  /\ UNCHANGED <<users, matches, messages, emitted, rooms, received, started,
                 serial, now>>

\* new Message({ ..., content: content?.trim(), ... }).save().
\* messageSchema.pre('save'): sender and recipient must differ; a match of a
\* user with themselves has no other user and recipient._id throws
SendSave(p) ==
  /\ slot[p].pc = "send_save"
  /\ LET s == slot[p] IN
     IF s.recipient = Nil \/ s.recipient = s.user
       THEN /\ Respond(p, 500)
            /\ UNCHANGED messages
       ELSE /\ messages' = Append(messages,
                 [NewMessage(s.matchId, s.user, s.recipient, Trim(s.content),
                             s.messageType, s.replyTo, now)
                    EXCEPT !.imageUrl = s.imageUrl, !.gifUrl = s.gifUrl])
            /\ slot' = [slot EXCEPT ![p].pc = "postSave_findMatch",
                                    ![p].messageId = Len(messages) + 1]
  /\ UNCHANGED <<users, matches, emitted, rooms, received, started, serial,
                 now>>

\* emit receive_message to the recipient, message_sent to the sender; 201
SendRespond(p) ==
  /\ slot[p].pc = "respond_send"
  /\ Emit({[room |-> ObjectIdToString(slot[p].recipient),
            event |-> "receive_message", ref |-> slot[p].messageId],
           [room |-> ObjectIdToString(slot[p].user),
            event |-> "message_sent", ref |-> slot[p].messageId]})
  /\ Respond(p, 201)
  /\ UNCHANGED <<users, matches, messages, started, serial, now>>

\* text bodies with the content absent or plain
TextPayloads ==
  {b \in Payloads : b.messageType = "text" /\ b.content \in {NoContent, "hi"}}

\* replyTo of a request body: absent, or the id of a stored message
Replies == {Nil} \cup (1..Len(messages))

\* replyTo may also be a well-formed id that names no message
RepliesOrGhost == {Nil} \cup (1..(Len(messages) + 1))

SendRequest(p, bodies, replies) ==
  \E u \in UserIds, m \in 1..(Len(matches) + 1), b \in bodies,
     re \in replies :
    SendFindMatch(p, u, m, b, re)

SendSteps(p) ==
  \/ SendFindReply(p)
  \/ SendSave(p)
  \/ SendRespond(p)

Send(p) ==
  \/ SendRequest(p, TextPayloads, Replies)
  \/ SendSteps(p)

(* --------------- DELETE /api/messages/:messageId ----------------------- *)
\* a delete that tells a message of somebody else (403) from a missing one
DeleteFindTellsApart(p, u, id) ==
  /\ Auth(p, u)
  /\ LET found == /\ id \in 1..Len(messages)
                  /\ messages[id].sender = u
                  /\ messages[id].isActive
         code == IF found THEN 0
                 ELSE IF id \in 1..Len(messages) /\ messages[id].sender # u
                   THEN 403
                 ELSE 404 IN
     slot' = [slot EXCEPT ![p] =
       [IdleSlot EXCEPT !.op = "delete", !.user = u, !.messageId = id,
                        !.pc = IF found THEN "delete_save" ELSE "done",
                        !.status = code,
                        !.message = IF code = 0 THEN NoContent
                                    ELSE IF code = 403 THEN "Forbidden"
                                    ELSE "Message not found or unauthorized"]]
  /\ UNCHANGED <<users, matches, messages, emitted, rooms, received, now>>

\* Message.deleteMessage: findOne({ _id, sender: userId, isActive: true })
DeleteFind(p, u, id) ==
  /\ Auth(p, u)
  /\ LET found == /\ id \in 1..Len(messages)
                  /\ messages[id].sender = u
                  /\ messages[id].isActive IN
     slot' = [slot EXCEPT ![p] =
       [IdleSlot EXCEPT !.op = "delete", !.user = u, !.messageId = id,
                        !.pc = IF found THEN "delete_save" ELSE "done",
                        !.status = IF found THEN 0 ELSE 404,
                        !.message = IF found THEN NoContent
                                    ELSE "Message not found or unauthorized"]]
  /\ UNCHANGED <<users, matches, messages, emitted, rooms, received, now>>

\* message.isActive = false; await message.save()
DeleteSave(p) ==
  /\ slot[p].pc = "delete_save"
  /\ messages' = [messages EXCEPT ![slot[p].messageId].isActive = FALSE]
  /\ Goto(p, "postSave_findMatch")
  /\ UNCHANGED <<users, matches, emitted, rooms, received, started, serial,
                 now>>

\* io.to(message.recipient.toString()).emit('message_deleted', ...); 200
DeleteRespond(p) ==
  /\ slot[p].pc = "respond_delete"
  /\ Emit({[room |-> ObjectIdToString(messages[slot[p].messageId].recipient),
            event |-> "message_deleted", ref |-> slot[p].messageId]})
  /\ Respond(p, 200)
  /\ UNCHANGED <<users, matches, messages, started, serial, now>>

DeleteMessage(p) ==
  \/ \E u \in UserIds, id \in 1..(Len(messages) + 1) : DeleteFind(p, u, id)
  \/ DeleteSave(p)
  \/ DeleteRespond(p)

(* --------------- PUT /api/messages/:messageId/edit --------------------- *)
\* request bodies: content empty, plain, too long
EditContents == {NoContent, "yo", LongContent}

\* Message.editMessage: findOne({ _id, sender, isActive: true, messageType: 'text' })
EditFindMessage(id, u) ==
  /\ id \in 1..Len(messages)
  /\ messages[id].sender = u
  /\ messages[id].isActive
  /\ messages[id].messageType = "text"

\* message.createdAt < new Date(Date.now() - 15 * 60 * 1000)
TooOldToEdit(id) == messages[id].createdAt < now - EditWindow

\* the validator, the lookup and the window, in the order the route runs them
EditFind(p, u, id, c) ==
  /\ Auth(p, u)
  /\ LET ok == /\ IsLengthOk(c)
               /\ EditFindMessage(id, u)
               /\ ~TooOldToEdit(id) IN
     slot' = [slot EXCEPT ![p] =
       [IdleSlot EXCEPT !.op = "edit", !.user = u, !.messageId = id,
                        !.content = c, !.stamp = now,
                        !.pc = IF ok THEN "edit_save" ELSE "done",
                        !.status = IF ok THEN 0 ELSE 400,
                        !.message =
                          IF ~IsLengthOk(c) THEN "Validation errors"
                          ELSE IF ~EditFindMessage(id, u)
                            THEN "Message not found or unauthorized"
                          ELSE IF TooOldToEdit(id)
                            THEN "Message is too old to edit"
                          ELSE NoContent]]
  /\ UNCHANGED <<users, matches, messages, emitted, rooms, received, now>>

\* message.content = newContent; message.editedAt = new Date(); save()
EditSave(p) ==
  /\ slot[p].pc = "edit_save"
  /\ messages' = [messages EXCEPT ![slot[p].messageId].content =
                                    Trim(slot[p].content),
                                  ![slot[p].messageId].editedAt = slot[p].stamp]
  /\ Goto(p, "postSave_findMatch")
  /\ UNCHANGED <<users, matches, emitted, rooms, received, started, serial,
                 now>>

\* io.to(message.recipient._id.toString()).emit('message_edited', ...); 200
EditRespond(p) ==
  /\ slot[p].pc = "respond_edit"
  /\ Emit({[room |-> ObjectIdToString(messages[slot[p].messageId].recipient),
            event |-> "message_edited", ref |-> slot[p].messageId]})
  /\ Respond(p, 200)
  /\ UNCHANGED <<users, matches, messages, started, serial, now>>

EditRequest(p, contents) ==
  \E u \in UserIds, id \in 1..(Len(messages) + 1), c \in contents :
    EditFind(p, u, id, c)

EditSteps(p) ==
  \/ EditSave(p)
  \/ EditRespond(p)

EditMessage(p) ==
  \/ EditRequest(p, {"yo"})
  \/ EditSteps(p)

(* --------------- PUT /api/messages/:messageId/read --------------------- *)
\* Message.findOneAndUpdate({ _id, recipient: req.user._id, isActive: true },
\*                          { isRead: true, readAt: new Date() })
MarkReadUpdate(p, u, id) ==
  /\ Auth(p, u)
  /\ LET found == /\ id \in 1..Len(messages)
                  /\ messages[id].recipient = u
                  /\ messages[id].isActive IN
     /\ messages' = IF found
                      THEN [messages EXCEPT ![id].isRead = TRUE,
                                            ![id].readAt = now]
                      ELSE messages
     /\ slot' = [slot EXCEPT ![p] =
          [IdleSlot EXCEPT !.op = "markRead", !.user = u, !.messageId = id,
                           !.pc = IF found THEN "respond_markRead" ELSE "done",
                           !.status = IF found THEN 0 ELSE 404,
                           !.message = IF found THEN NoContent
                                       ELSE "Message not found"]]
  /\ UNCHANGED <<users, matches, emitted, rooms, received, now>>

\* io.to(message.sender.toString()).emit('message_read', ...); 200
MarkReadRespond(p) ==
  /\ slot[p].pc = "respond_markRead"
  /\ Emit({[room |-> ObjectIdToString(messages[slot[p].messageId].sender),
            event |-> "message_read", ref |-> slot[p].messageId]})
  /\ Respond(p, 200)
  /\ UNCHANGED <<users, matches, messages, started, serial, now>>

MarkRead(p) ==
  \/ \E u \in UserIds, id \in 1..(Len(messages) + 1) : MarkReadUpdate(p, u, id)
  \/ MarkReadRespond(p)

(* ------------ GET /api/matches/:matchId/messages (part_002) ------------ *)
\* listing bounds
MaxPage == 2
MaxLimit == 2

\* what a listed message shows of the stored one
Listed(i) ==
  [id |-> i, content |-> messages[i].content, isRead |-> messages[i].isRead,
   isDelivered |-> messages[i].isDelivered, isActive |-> messages[i].isActive]

\* a marking that does not look at the recipient
MarkAsReadEveryone(matchId, userId) ==
  [i \in 1..Len(messages) |->
     IF /\ messages[i].match = matchId
        /\ ~messages[i].isRead
        /\ messages[i].isActive
       THEN [messages[i] EXCEPT !.isRead = TRUE, !.readAt = now]
       ELSE messages[i]]

\* Message.markAsRead: updateMany({ match, recipient, isRead: false,
\* isActive: true }, { $set: { isRead: true, readAt: new Date() } })
MarkAsRead(matchId, userId) ==
  [i \in 1..Len(messages) |->
     IF /\ messages[i].match = matchId
        /\ messages[i].recipient = userId
        /\ ~messages[i].isRead
        /\ messages[i].isActive
       THEN [messages[i] EXCEPT !.isRead = TRUE, !.readAt = now]
       ELSE messages[i]]

ListFind(p, u, m, page, limit) ==
  /\ Auth(p, u)
  /\ slot' = [slot EXCEPT ![p] =
       [IdleSlot EXCEPT !.op = "list", !.user = u, !.matchId = m,
                        !.page = page, !.limit = limit,
                        !.pc = IF FindUserMatch(m, u) THEN "list_get" ELSE "done",
                        !.status = IF FindUserMatch(m, u) THEN 0 ELSE 404,
                        !.message = IF FindUserMatch(m, u) THEN NoContent
                                    ELSE "Match not found"]]
  /\ UNCHANGED <<users, matches, messages, emitted, rooms, received, now>>

\* const messages = await Message.getMatchMessages(matchId, page, limit)
ListGet(p) ==
  /\ slot[p].pc = "list_get"
  /\ LET ids == GetMatchMessages(slot[p].matchId, slot[p].page, slot[p].limit) IN
     slot' = [slot EXCEPT ![p].pc = "list_markRead",
                          ![p].result = [k \in 1..Len(ids) |-> Listed(ids[k])]]
  /\ UNCHANGED <<users, matches, messages, emitted, rooms, received, started,
                 serial, now>>

\* await Message.markAsRead(matchId, req.user._id)
ListMarkRead(p) ==
  /\ slot[p].pc = "list_markRead"
  /\ messages' = MarkAsRead(slot[p].matchId, slot[p].user)
  /\ Goto(p, "list_respond")
  /\ UNCHANGED <<users, matches, emitted, rooms, received, started, serial,
                 now>>

\* res.json({ data: { messages: messages.reverse(), ... } })
ListRespond(p) ==
  /\ slot[p].pc = "list_respond"
  /\ slot' = [slot EXCEPT ![p].pc = "done", ![p].status = 200,
                          ![p].result = Reverse(slot[p].result)]
  /\ UNCHANGED <<users, matches, messages, emitted, rooms, received, started,
                 serial, now>>

ListMessages(p) ==
  \/ \E u \in UserIds, m \in 1..(Len(matches) + 1),
        page \in 1..MaxPage, limit \in 1..MaxLimit :
       ListFind(p, u, m, page, limit)
  \/ ListGet(p)
  \/ ListMarkRead(p)
  \/ ListRespond(p)

(* ---------- PUT /api/messages/match/:matchId/read-all ------------------ *)
ReadAllFind(p, u, m) ==
  /\ Auth(p, u)
  /\ slot' = [slot EXCEPT ![p] =
       [IdleSlot EXCEPT !.op = "readAll", !.user = u, !.matchId = m,
                        !.pc = IF FindUserMatch(m, u) THEN "readAll_markRead"
                               ELSE "done",
                        !.status = IF FindUserMatch(m, u) THEN 0 ELSE 404,
                        !.message = IF FindUserMatch(m, u) THEN NoContent
                                    ELSE "Match not found"]]
  /\ UNCHANGED <<users, matches, messages, emitted, rooms, received, now>>

\* const modifiedCount = await Message.markAsRead(matchId, req.user._id)
ReadAllMarkRead(p) ==
  /\ slot[p].pc = "readAll_markRead"
  /\ messages' = MarkAsRead(slot[p].matchId, slot[p].user)
  /\ Goto(p, "readAll_respond")
  /\ UNCHANGED <<users, matches, emitted, rooms, received, started, serial,
                 now>>

\* io.to(otherUser.toString()).emit('messages_read', ...) and the 200
\* response; with no other user in the match, otherUser.toString() throws
ReadAllRespond(p) ==
  /\ slot[p].pc = "readAll_respond"
  /\ LET other == OtherUser(slot[p].matchId, slot[p].user) IN
     IF other = Nil
       THEN /\ Respond(p, 500)
            /\ UNCHANGED <<emitted, rooms, received>>
       ELSE /\ Emit({[room |-> ObjectIdToString(other), event |-> "messages_read",
                      ref |-> slot[p].matchId]})
            /\ Respond(p, 200)
  /\ UNCHANGED <<users, matches, messages, started, serial, now>>

ReadAll(p) ==
  \/ \E u \in UserIds, m \in 1..(Len(matches) + 1) : ReadAllFind(p, u, m)
  \/ ReadAllMarkRead(p)
  \/ ReadAllRespond(p)

(* ------------------ GET /api/matches/:matchId (part_002) --------------- *)
GetMatchFind(p, u, m) ==
  /\ Auth(p, u)
  /\ slot' = [slot EXCEPT ![p] =
       [IdleSlot EXCEPT !.op = "getMatch", !.user = u, !.matchId = m,
                        !.pc = IF FindUserMatch(m, u) THEN "getMatch_details"
                               ELSE "done",
                        !.status = IF FindUserMatch(m, u) THEN 0 ELSE 404,
                        !.message = IF FindUserMatch(m, u) THEN NoContent
                                    ELSE "Match not found"]]
  /\ UNCHANGED <<users, matches, messages, emitted, rooms, received, now>>

\* match.getMatchDetailsForUser(req.user._id): populate and count, no write
GetMatchDetails(p) ==
  /\ slot[p].pc = "getMatch_details"
  /\ Respond(p, 200)
  /\ UNCHANGED <<users, matches, messages, emitted, rooms, received, started,
                 serial, now>>

GetMatch(p) ==
  \/ \E u \in UserIds, m \in 1..(Len(matches) + 1) : GetMatchFind(p, u, m)
  \/ GetMatchDetails(p)

(* ------------------- socket handlers (part_003) ------------------------ *)
\* a room is named by the string the client passes to join; the handlers emit
\* to the room named by a user's id
RoomNames == {ObjectIdToString(u) : u \in UserIds}

\* what a client sends with send_message or typing: the recipient's room and,
\* for a message, the id it claims (a stored message's or none)
SocketData == [recipientId : RoomNames, ref : 1..(Len(messages) + 1)]

\* an event a client sends over its connection
ClientEvent ==
  /\ started < MaxRequests
  /\ started' = started + 1
  /\ UNCHANGED <<users, matches, messages, emitted, slot, now, serial>>

\* a join that hands the joining connection the events emitted to the room
\* before
JoinReplaysMissed(c, userId) ==
  /\ ClientEvent
  /\ rooms' = rooms \cup {<<c, userId>>}
  /\ received' = received \cup
       {[conn |-> c, room |-> e.room, event |-> e.event, ref |-> e.ref] :
          e \in {x \in emitted : x.room = userId}}

\* socket.on('join', (userId) => socket.join(userId))
Join(c, userId) ==
  /\ ClientEvent
  /\ rooms' = rooms \cup {<<c, userId>>}
  /\ UNCHANGED received

\* socket.on('disconnect'): the connection leaves every room
Disconnect(c) ==
  /\ ClientEvent
  /\ \E r \in RoomNames : <<c, r>> \in rooms
  /\ rooms' = {x \in rooms : x[1] # c}
  /\ UNCHANGED received

\* socket.to(data.recipientId).emit(event, data): to every connection in the
\* room but the sending one
Relay(c, event, data) ==
  /\ ClientEvent
  /\ received' = received \cup
       Deliver({[room |-> data.recipientId, event |-> event,
                 ref |-> data.ref]}, {c})
  /\ UNCHANGED rooms

\* socket.on('send_message', (data) => ... emit('receive_message', data))
SocketSendMessage(c) ==
  \E data \in SocketData : Relay(c, "receive_message", data)

\* socket.on('typing') and socket.on('stop_typing')
Typing(c) ==
  \E data \in [recipientId : RoomNames, ref : {Nil}] :
    \/ Relay(c, "user_typing", data)
    \/ Relay(c, "user_stop_typing", data)

Socket(c) ==
  \/ \E userId \in RoomNames : Join(c, userId)
  \/ Disconnect(c)
  \/ SocketSendMessage(c)
  \/ Typing(c)

(* --------------- the Match model used directly (Match.js) -------------- *)
MaxMatchUsers == 3

MatchUserLists ==
  UNION {[1..n -> UserIds] : n \in 0..MaxMatchUsers}

\* new Match({ users: us }).save(): the pre-save hook decides
MatchCreate(p, us) ==
  /\ AtRest(p)
  /\ \A q \in Slots : q < p => ~AtRest(q)
  /\ started < MaxRequests
  /\ started' = started + 1
  /\ UNCHANGED serial
  /\ IF MatchPreSave(us)
       THEN /\ matches' = Append(matches, NewMatch(us, now))
            /\ slot' = [slot EXCEPT ![p] =
                 [IdleSlot EXCEPT !.pc = "done", !.op = "matchCreate",
                                  !.newUsers = us, !.status = 201,
                                  !.matchId = Len(matches) + 1]]
       ELSE /\ UNCHANGED matches
            /\ slot' = [slot EXCEPT ![p] =
                 [IdleSlot EXCEPT !.pc = "done", !.op = "matchCreate",
                                  !.newUsers = us, !.status = 500]]
  /\ UNCHANGED <<users, messages, emitted, rooms, received, now>>

(* ---------------------------- specification ---------------------------- *)
\* the response has been sent: the request's locals go away (the answers of
\* requests sent in turn are kept, to be compared with the answers after them)
Finish(p) ==
  /\ slot[p].pc = "done"
  /\ ~serial
  /\ slot' = [slot EXCEPT ![p] = IdleSlot]
  /\ UNCHANGED <<users, matches, messages, emitted, rooms, received, started,
                 serial, now>>

Step(p) ==
  \/ Finish(p)
  \/ Swipe(p)
  \/ DeleteAccount(p)
  \/ Unmatch(p)
  \/ PostSave(p)
  \/ Send(p)
  \/ DeleteMessage(p)
  \/ EditMessage(p)
  \/ MarkRead(p)

Next ==
  \/ \E p \in Slots : Step(p)
  \/ Tick

Spec == Init /\ [][Next]_vars

\* requests handled one after another: a request starts only when no other
\* is in flight
SeqNext ==
  \/ Step(1)
  \/ Tick

SpecSeq == Init /\ [][SeqNext]_vars

\* swipes and unmatches handled one after another, with writes of the match
\* creation that may fail
FailNext ==
  \/ Finish(1)
  \/ Swipe(1)
  \/ SwipeWriteFails(1)
  \/ Unmatch(1)

SpecFail == Init /\ [][FailNext]_vars

\* the handlers together with direct use of the Match model
ApiNext ==
  \/ Next
  \/ \E p \in Slots, us \in MatchUserLists : MatchCreate(p, us)

SpecApi == Init /\ [][ApiNext]_vars

(* ------------------ the match and message handlers alone --------------- *)
\* user 1 has liked themselves with their id in upper case: match 1 is <<1, 1>>
SelfMatchedDb ==
  [FreshDb EXCEPT !.users[1].swipedUsers = <<Like(1)>>,
                  !.users[1].matches = <<1, 1>>,
                  !.matches = <<NewMatch(<<1, 1>>, 0)>>]

\* user 2 has sent a picture after user 1's text
PictureDb ==
  [ChattingDb EXCEPT !.matches[1].messages = <<1, 2>>,
                     !.matches[1].lastMessage = 2,
                     !.messages = Append(@,
                        [NewMessage(1, 2, 1, NoContent, "image", Nil, 0)
                           EXCEPT !.imageUrl = TRUE])]

MsgDbs == {MatchedDb, ChattingDb, PictureDb, UnmatchedDb, SelfMatchedDb}

MsgInit ==
  /\ \E db \in MsgDbs :
       /\ users = db.users
       /\ matches = db.matches
       /\ messages = db.messages
  /\ emitted = {}
  /\ rooms = {}
  /\ received = {}
  /\ slot = [p \in Slots |-> IdleSlot]
  /\ started = 0
  /\ now = 0
  /\ serial = TRUE

\* the handlers of matchRoutes and messageRoutes with every request body the
\* validators let through or reject, and with writes that may fail
MsgStep(p) ==
  \/ Unmatch(p)
  \/ UnmatchWriteFails(p)
  \/ PostSave(p)
  \/ PostSaveFails(p)
  \/ SendRequest(p, Payloads, Replies)
  \/ SendSteps(p)
  \/ DeleteMessage(p)
  \/ EditRequest(p, EditContents)
  \/ EditSteps(p)
  \/ MarkRead(p)
  \/ ListMessages(p)

MsgNext ==
  \/ \E p \in Slots : MsgStep(p)
  \/ Tick

\* requests sent one after another
SpecMsgSeq == MsgInit /\ [][MsgNext]_vars

(* --------------------- concurrent chat requests ------------------------ *)
\* both users have liked each other at the same moment, which left two
\* matches for the pair; user 1 has then sent a text into match 1
TwoMatchDb ==
  [FreshDb EXCEPT !.users[1].swipedUsers = <<Like(2)>>,
                  !.users[2].swipedUsers = <<Like(1)>>,
                  !.users[1].matches = <<1, 2>>,
                  !.users[2].matches = <<1, 2>>,
                  !.matches = <<[NewMatch(<<1, 2>>, 0) EXCEPT
                                   !.messages = <<1>>, !.lastMessage = 1],
                                NewMatch(<<2, 1>>, 0)>>,
                  !.messages = <<NewMessage(1, 1, 2, "hi", "text", Nil, 0)>>]

ChatDbs == {ChattingDb, TwoMatchDb}

ChatInit ==
  /\ \E db \in ChatDbs :
       /\ users = db.users
       /\ matches = db.matches
       /\ messages = db.messages
  /\ emitted = {}
  /\ rooms = {}
  /\ received = {}
  /\ slot = [p \in Slots |-> IdleSlot]
  /\ started = 0
  /\ now = 0
  /\ serial = FALSE

\* sends, deletes and the two ways of marking messages read
ChatStep(p) ==
  \/ Finish(p)
  \/ PostSave(p)
  \/ SendRequest(p, TextPayloads, RepliesOrGhost)
  \/ SendSteps(p)
  \/ DeleteMessage(p)
  \/ ListMessages(p)
  \/ ReadAll(p)

ChatNext == \E p \in Slots : ChatStep(p)

\* the chat requests of both users handled concurrently
SpecChat == ChatInit /\ [][ChatNext]_vars

(* ------------------ requests and live connections --------------------- *)
LiveDbs == {LikedDb, MatchedDb, ChattingDb}

\* nobody is connected, or connection 1 has joined the room of user 2
LiveRooms == {{}, {<<1, ObjectIdToString(2)>>}}

LiveInit ==
  /\ \E db \in LiveDbs :
       /\ users = db.users
       /\ matches = db.matches
       /\ messages = db.messages
  /\ emitted = {}
  /\ rooms \in LiveRooms
  /\ received = {}
  /\ slot = [p \in Slots |-> IdleSlot]
  /\ started = 0
  /\ now = 0
  /\ serial = TRUE

LiveStep(p) ==
  \/ Swipe(p)
  \/ Unmatch(p)
  \/ PostSave(p)
  \/ Send(p)
  \/ DeleteMessage(p)
  \/ EditMessage(p)
  \/ MarkRead(p)
  \/ ReadAll(p)

LiveNext ==
  \/ \E p \in Slots : LiveStep(p)
  \/ \E c \in Conns : Socket(c)

\* requests sent one after another while connections come, go and send
SpecLive == LiveInit /\ [][LiveNext]_vars

(* ------------------- requests for what is not one's own --------------- *)
AccessDbs == {ChattingDb, SelfMatchedDb}

AccessInit ==
  /\ \E db \in AccessDbs :
       /\ users = db.users
       /\ matches = db.matches
       /\ messages = db.messages
  /\ emitted = {}
  /\ rooms = {}
  /\ received = {}
  /\ slot = [p \in Slots |-> IdleSlot]
  /\ started = 0
  /\ now = 0
  /\ serial = TRUE

\* the handlers that address a match or a message by its id
AccessStep(p) ==
  \/ Unmatch(p)
  \/ GetMatch(p)
  \/ PostSave(p)
  \/ Send(p)
  \/ DeleteMessage(p)
  \/ EditMessage(p)
  \/ MarkRead(p)
  \/ ReadAll(p)

AccessNext == \E p \in Slots : AccessStep(p)

\* requests sent one after another
SpecAccess == AccessInit /\ [][AccessNext]_vars

(* ------------------ User.getPotentialMatches (part_006) ---------------- *)
NumProfiles == 3
ProfileIds == 1..NumProfiles

MaxDiscoverLimit == 2

\* parseInt(req.query.limit) || 10
DefaultLimit == 10

\* preferences.maxDistance, in kilometres
DefaultMaxDistance == 50

\* the user schema with the fields the discover query reads
NewProfile(age, gender, interestedIn) ==
  [isActive |-> TRUE, swipedUsers |-> <<>>, matches |-> <<>>,
   age |-> age, gender |-> gender, interestedIn |-> interestedIn,
   ageRange |-> [min |-> 18, max |-> 50],
   maxDistance |-> DefaultMaxDistance,
   coordinates |-> <<0, 0>>, lastActive |-> 0]

Abs(x) == IF x < 0 THEN -x ELSE x

\* distance in metres between two points; the points of the model lie on one
\* line, a kilometre apart for each unit
DistanceMetres(a, b) == 1000 * (Abs(a[1] - b[1]) + Abs(a[2] - b[2]))

\* the discover filter without the gender preference
PotentialMatchAnyGender(this, thisId, c) ==
  /\ c # thisId
  /\ \A i \in 1..Len(this.swipedUsers) : this.swipedUsers[i].userId # c
  /\ users[c].isActive
  /\ users[c].age >= this.ageRange.min
  /\ users[c].age <= this.ageRange.max
  /\ (this.coordinates[1] # 0 \/ this.coordinates[2] # 0)
       => DistanceMetres(users[c].coordinates, this.coordinates)
            <= this.maxDistance * 1000

\* the query of getPotentialMatches: user c passes the filter of actor this
PotentialMatch(this, thisId, c) ==
  /\ c # thisId
  /\ \A i \in 1..Len(this.swipedUsers) : this.swipedUsers[i].userId # c
  /\ users[c].isActive
  /\ users[c].age >= this.ageRange.min
  /\ users[c].age <= this.ageRange.max
  /\ this.interestedIn # "both" => users[c].gender = this.interestedIn
  /\ (this.coordinates[1] # 0 \/ this.coordinates[2] # 0)
       => DistanceMetres(users[c].coordinates, this.coordinates)
            <= this.maxDistance * 1000

\* .sort({ lastActive: -1 }): the orders of the users in S with the most
\* recently active first; users active at the same time come in any order
SortedByLastActive(S) ==
  {s \in [1..Cardinality(S) -> S] :
     /\ \A i, j \in 1..Cardinality(S) : i # j => s[i] # s[j]
     /\ \A i, j \in 1..Cardinality(S) :
          i < j => users[s[i]].lastActive >= users[s[j]].lastActive}

\* .limit(n): the first n documents, and all of them for n = 0
Limit(s, n) ==
  IF n = 0 \/ n >= Len(s) THEN s ELSE SubSeq(s, 1, n)

\* the results the query can give
GetPotentialMatches(this, thisId, limit) ==
  {Limit(s, limit) :
     s \in SortedByLastActive(
             {c \in DOMAIN users : PotentialMatch(this, thisId, c)})}

\* GET /api/users/discover: the limit, when given, is validated to 1..50
DiscoverAuth(p, u, limit) ==
  /\ Auth(p, u)
  /\ LET ok == limit = Nil \/ (limit >= 1 /\ limit <= 50) IN
     slot' = [slot EXCEPT ![p] =
       [IdleSlot EXCEPT !.op = "discover", !.user = u, !.reqUser = users[u],
                        !.limit = IF limit = Nil THEN DefaultLimit ELSE limit,
                        !.pc = IF ok THEN "discover_find" ELSE "done",
                        !.status = IF ok THEN 0 ELSE 400,
                        !.message =
                          IF ok THEN NoContent ELSE "Validation errors"]]
  /\ UNCHANGED <<users, matches, messages, emitted, rooms, received, now>>

\* await req.user.getPotentialMatches(limit); res.json(...)
DiscoverFind(p) ==
  /\ slot[p].pc = "discover_find"
  /\ \E r \in GetPotentialMatches(slot[p].reqUser, slot[p].user,
                                  slot[p].limit) :
       slot' = [slot EXCEPT ![p].result = r, ![p].pc = "done",
                            ![p].status = 200]
  /\ UNCHANGED <<users, matches, messages, emitted, rooms, received, started,
                 serial, now>>

Discover(p) ==
  \/ \E u \in UserIds, limit \in {Nil} \cup (0..MaxDiscoverLimit) :
       DiscoverAuth(p, u, limit)
  \/ DiscoverFind(p)

\* the actor of the discover requests: a user looking for women or for
\* anybody, up to the age of 35 or 50, with or without a location, who has
\* swiped nobody or user 3
Seekers ==
  {[NewProfile(30, "male", i) EXCEPT !.ageRange.max = a, !.coordinates = c,
                                     !.swipedUsers = sw] :
     i \in {"female", "both"}, a \in {35, 50},
     c \in {<<0, 0>>, <<1, 0>>}, sw \in {<<>>, <<Like(3)>>}}

\* the users to be found
Candidates ==
  {[NewProfile(a, g, "both") EXCEPT !.isActive = act, !.coordinates = c,
                                    !.lastActive = 1] :
     a \in {25, 40}, g \in {"female", "male"}, act \in BOOLEAN,
     c \in {<<2, 0>>, <<90, 0>>}}

DiscoverInit ==
  /\ users \in {[u \in ProfileIds |->
                   IF u = 1 THEN s ELSE IF u = 2 THEN c
                   ELSE [d EXCEPT !.coordinates = <<2, 0>>]] :
                  s \in Seekers, c \in Candidates,
                  d \in {e \in Candidates : e.isActive /\ e.gender = "female"}}
  /\ matches = <<>>
  /\ messages = <<>>
  /\ emitted = {}
  /\ rooms = {}
  /\ received = {}
  /\ slot = [p \in Slots |-> IdleSlot]
  /\ started = 0
  /\ now = 0
  /\ serial = TRUE

DiscoverNext == \E p \in Slots : Discover(p)

SpecDiscover == DiscoverInit /\ [][DiscoverNext]_vars

(* --------------------- photo routes (part_003) ------------------------- *)
MaxStoredPhotos == 2

\* the user schema with the photo list and the document version (__v)
NewAccount ==
  [isActive |-> TRUE, swipedUsers |-> <<>>, matches |-> <<>>,
   photos |-> <<>>, version |-> 0]

\* photos: [{ url, isMain, uploadedAt }], each with its own _id
NewPhoto(id, isMain) == [id |-> id, isMain |-> isMain]

\* the _id a request gives to the photo it pushes
FreshPhotoId == MaxStoredPhotos + started + 1

PhotoIndex(photos, photoId) ==
  IF \E i \in 1..Len(photos) : photos[i].id = photoId
    THEN CHOOSE i \in 1..Len(photos) :
           /\ photos[i].id = photoId
           /\ \A j \in 1..(i - 1) : photos[j].id # photoId
    ELSE 0

\* the positions at which the request's copy differs from what it loaded
ChangedFlags(loaded, local) ==
  {i \in 1..Len(loaded) : i <= Len(local) /\ local[i] # loaded[i]}

\* POST /upload-photo, up to the save: req.user is the document the auth
\* middleware loaded; the new list is built on that copy
UploadPhoto(p, u, isMain) ==
  /\ Auth(p, u)
  /\ LET loaded == users[u].photos
         cleared == IF isMain
                      THEN [i \in 1..Len(loaded) |->
                              [loaded[i] EXCEPT !.isMain = FALSE]]
                      ELSE loaded
         local == Append(cleared,
                         NewPhoto(FreshPhotoId, isMain \/ Len(loaded) = 0)) IN
     slot' = [slot EXCEPT ![p] =
       [IdleSlot EXCEPT !.op = "upload", !.user = u, !.isMain = isMain,
                        !.photoId = FreshPhotoId,
                        !.reqUser = users[u], !.result = local,
                        !.pc = "upload_save"]]
  /\ UNCHANGED <<users, matches, messages, emitted, rooms, received, now>>

\* await req.user.save() of an upload.  A push alone is written as $push and
\* increments the version without testing it; a push together with changed
\* elements is written as a $set of the whole array, which tests the version
UploadSave(p) ==
  /\ slot[p].pc = "upload_save"
  /\ LET s == slot[p]
         doc == users[s.user]
         pushed == s.result[Len(s.result)] IN
     IF ChangedFlags(s.reqUser.photos, s.result) = {}
       THEN /\ users' = [users EXCEPT
                           ![s.user].photos = Append(@, pushed),
                           ![s.user].version = @ + 1]
            /\ Respond(p, 200)
       ELSE IF doc.version = s.reqUser.version
         THEN /\ users' = [users EXCEPT ![s.user].photos = s.result,
                                        ![s.user].version = @ + 1]
              /\ Respond(p, 200)
       ELSE /\ UNCHANGED users
            /\ Respond(p, 500)
  /\ UNCHANGED <<matches, messages, emitted, rooms, received, started,
                 serial, now>>

\* DELETE /delete-photo/:photoId, up to the save
DeletePhoto(p, u, photoId) ==
  /\ Auth(p, u)
  /\ LET loaded == users[u].photos
         photoIndex == PhotoIndex(loaded, photoId)
         spliced == [i \in 1..(Len(loaded) - 1) |->
                       IF i < photoIndex THEN loaded[i] ELSE loaded[i + 1]]
         local == IF loaded[photoIndex].isMain /\ Len(spliced) > 0
                    THEN [spliced EXCEPT ![1].isMain = TRUE]
                    ELSE spliced IN
     IF photoIndex = 0
       THEN slot' = [slot EXCEPT ![p] =
              [IdleSlot EXCEPT !.op = "deletePhoto", !.user = u,
                               !.photoId = photoId, !.pc = "done",
                               !.status = 404,
                               !.message = "Photo not found"]]
       ELSE slot' = [slot EXCEPT ![p] =
              [IdleSlot EXCEPT !.op = "deletePhoto", !.user = u,
                               !.photoId = photoId, !.reqUser = users[u],
                               !.result = local, !.pc = "photos_set"]]
  /\ UNCHANGED <<users, matches, messages, emitted, rooms, received, now>>

\* await req.user.save() after a splice: a $set of the whole array, which
\* tests the version and increments it
DeletePhotoSave(p) ==
  /\ slot[p].pc = "photos_set"
  /\ LET s == slot[p]
         doc == users[s.user] IN
     IF doc.version = s.reqUser.version
       THEN /\ users' = [users EXCEPT ![s.user].photos = s.result,
                                      ![s.user].version = @ + 1]
            /\ Respond(p, 200)
       ELSE /\ UNCHANGED users
            /\ Respond(p, 500)
  /\ UNCHANGED <<matches, messages, emitted, rooms, received, started,
                 serial, now>>

\* PUT /set-main-photo/:photoId, up to the save
SetMainPhoto(p, u, photoId) ==
  /\ Auth(p, u)
  /\ LET loaded == users[u].photos
         local == [i \in 1..Len(loaded) |->
                     [loaded[i] EXCEPT !.isMain = (loaded[i].id = photoId)]] IN
     IF PhotoIndex(loaded, photoId) = 0
       THEN slot' = [slot EXCEPT ![p] =
              [IdleSlot EXCEPT !.op = "setMain", !.user = u,
                               !.photoId = photoId, !.pc = "done",
                               !.status = 404,
                               !.message = "Photo not found"]]
       ELSE slot' = [slot EXCEPT ![p] =
              [IdleSlot EXCEPT !.op = "setMain", !.user = u,
                               !.photoId = photoId, !.reqUser = users[u],
                               !.result = local, !.pc = "flags_set"]]
  /\ UNCHANGED <<users, matches, messages, emitted, rooms, received, now>>

\* await req.user.save() after flags were changed: a $set of the changed
\* elements by position, which tests the version and does not increment it;
\* with nothing changed nothing is written
SetMainPhotoSave(p) ==
  /\ slot[p].pc = "flags_set"
  /\ LET s == slot[p]
         doc == users[s.user]
         changed == ChangedFlags(s.reqUser.photos, s.result) IN
     IF changed = {} \/ doc.version = s.reqUser.version
       THEN /\ users' = [users EXCEPT ![s.user].photos =
                           [i \in 1..Len(@) |->
                              IF i \in changed THEN s.result[i] ELSE @[i]]]
            /\ Respond(p, 200)
       ELSE /\ UNCHANGED users
            /\ Respond(p, 500)
  /\ UNCHANGED <<matches, messages, emitted, rooms, received, started,
                 serial, now>>

PhotoIds == 1..(MaxStoredPhotos + MaxRequests + 1)

Photos(p) ==
  \/ \E u \in UserIds, isMain \in BOOLEAN : UploadPhoto(p, u, isMain)
  \/ UploadSave(p)
  \/ \E u \in UserIds, photoId \in PhotoIds : DeletePhoto(p, u, photoId)
  \/ DeletePhotoSave(p)
  \/ \E u \in UserIds, photoId \in PhotoIds : SetMainPhoto(p, u, photoId)
  \/ SetMainPhotoSave(p)

\* user 1 has no photo, one photo, or as many as MaxStoredPhotos with the
\* first as the main one, as the handlers leave them
StoredPhotos ==
  {[i \in 1..n |-> NewPhoto(i, i = 1)] : n \in 0..MaxStoredPhotos}

PhotoInit ==
  /\ \E ph \in StoredPhotos :
       users = [u \in UserIds |->
                  IF u = 1 THEN [NewAccount EXCEPT !.photos = ph,
                                                   !.version = Len(ph)]
                  ELSE NewAccount]
  /\ matches = <<>>
  /\ messages = <<>>
  /\ emitted = {}
  /\ rooms = {}
  /\ received = {}
  /\ slot = [p \in Slots |-> IdleSlot]
  /\ started = 0
  /\ now = 0
  /\ serial \in BOOLEAN

PhotoNext == \E p \in Slots : Photos(p) \/ Finish(p)

SpecPhotos == PhotoInit /\ [][PhotoNext]_vars

TypeOK ==
  /\ started \in 0..MaxRequests
  /\ serial \in BOOLEAN
  /\ \A p \in Slots : slot[p].user \in UserIds \cup {Nil}

(* ------------------------------ properties ----------------------------- *)
SwipesOn(u, t) ==
  {i \in 1..Len(users[u].swipedUsers) : users[u].swipedUsers[i].userId = t}

LikesUser(u, t) ==
  \E i \in SwipesOn(u, t) : users[u].swipedUsers[i].action = "like"

MatchesOf(a, b) ==
  {m \in 1..Len(matches) : SeqToSet(matches[m].users) = {a, b}}

MatchesWith(a, b) ==
  {m \in 1..Len(matches) : {a, b} \subseteq SeqToSet(matches[m].users)}

\* a swipe request of slot p has been answered with 200
SwipeDone(p) ==
  /\ slot[p].pc = "done"
  /\ slot[p].op = "swipe"
  /\ slot[p].status = 200

\* C1: requests run one after another.  When a like of A on B (A # B) has been
\* answered: if B has no swipe on A, the answer is "no match" and no match
\* contains A and B; if it is A's first swipe on B and B already likes A, the
\* answer is "matched" and the reported match is the one and only match whose
\* users are {A, B}.
C1_MutualLikeMakesOneMatch ==
  \A p \in Slots :
    (SwipeDone(p) /\ slot[p].action = "like") =>
      LET a == slot[p].user
          b == CastObjectId(slot[p].targetUserId) IN
      a # b =>
        /\ SwipesOn(b, a) = {} =>
              (~slot[p].resMatch /\ MatchesWith(a, b) = {})
        /\ (Cardinality(SwipesOn(a, b)) = 1 /\ LikesUser(b, a)) =>
              (slot[p].resMatch /\ MatchesOf(a, b) = {slot[p].matchId})

C1_Witness ==
  \E p \in Slots :
    /\ SwipeDone(p)
    /\ slot[p].resMatch
    /\ slot[p].user # CastObjectId(slot[p].targetUserId)
    /\ Cardinality(SwipesOn(slot[p].user, CastObjectId(slot[p].targetUserId))) = 1
    /\ users[CastObjectId(slot[p].targetUserId)].matches = <<slot[p].matchId>>
    /\ started = 2

\* C2: two concurrent reciprocal likes (A likes B in one slot, B likes A in the
\* other, each the actor's only swipe on the other) have both been answered:
\* exactly one match for the pair {A, B} exists.
C2_ConcurrentLikesOneMatch ==
  \A p, q \in Slots :
    (/\ p # q
     /\ SwipeDone(p) /\ slot[p].action = "like"
     /\ SwipeDone(q) /\ slot[q].action = "like"
     /\ slot[p].user # slot[q].user
     /\ CastObjectId(slot[p].targetUserId) = slot[q].user
     /\ CastObjectId(slot[q].targetUserId) = slot[p].user
     /\ Cardinality(SwipesOn(slot[p].user, slot[q].user)) = 1
     /\ Cardinality(SwipesOn(slot[q].user, slot[p].user)) = 1)
    => Cardinality(MatchesOf(slot[p].user, slot[q].user)) = 1

\* C3: every swipe history holds at most one entry per target user.
C3_OneSwipePerTarget ==
  \A u \in UserIds, t \in UserIds : Cardinality(SwipesOn(u, t)) <= 1

\* C4: both users of every match have a like entry for each other, and only a
\* like request ever creates a match.
C4_MatchNeedsMutualLike ==
  /\ \A m \in 1..Len(matches) :
       /\ LikesUser(matches[m].users[1], matches[m].users[2])
       /\ LikesUser(matches[m].users[2], matches[m].users[1])
  /\ \A p \in Slots :
       (slot[p].op = "swipe" /\ slot[p].matchId # Nil) => slot[p].action = "like"

C4_Witness ==
  \E p \in Slots :
    /\ SwipeDone(p)
    /\ slot[p].resMatch
    /\ matches[slot[p].matchId].users =
         <<slot[p].user, CastObjectId(slot[p].targetUserId)>>
    /\ \E q \in Slots : slot[q].op = "swipe" /\ slot[q].action = "pass"

\* C5: requests run one after another.  A swipe that was answered with 200
\* had a target other than the actor, the target exists and is active, and
\* the entry it recorded is the actor's only entry for that target.
C5_BadSwipesRejected ==
  \A p \in Slots :
    SwipeDone(p) =>
      LET a == slot[p].user
          t == CastObjectId(slot[p].targetUserId) IN
      /\ t # a
      /\ t \in UserIds
      /\ users[t].isActive
      /\ Cardinality(SwipesOn(a, t)) = 1

\* C6: every persisted match has exactly two users, and saving a match with
\* 0, 1 or 3 users is answered with an error and leaves the matches as they were.
C6_MatchHasTwoUsers ==
  /\ [](\A m \in 1..Len(matches) : Len(matches[m].users) = 2)
  /\ [][\A p \in Slots :
         (/\ slot[p].pc = "idle"
          /\ slot'[p].op = "matchCreate"
          /\ Len(slot'[p].newUsers) \in {0, 1, 3})
         => (matches' = matches /\ slot'[p].status = 500)]_vars

C6_Witness ==
  \E p \in Slots :
    /\ slot[p].pc = "done"
    /\ slot[p].op = "matchCreate"
    /\ Len(slot[p].newUsers) = 3
    /\ slot[p].status = 500
    /\ Len(matches) = 2

\* C7: the two users of every persisted match are different users.
C7_MatchUsersDistinct ==
  \A m \in 1..Len(matches) : matches[m].users[1] # matches[m].users[2]

\* C8: a match that is inactive stays inactive in every step of every request,
\* and an unmatch request that finds its match inactive is answered 404 and
\* changes nothing.
C8_UnmatchIsTerminal ==
  [][/\ \A m \in 1..Len(matches) :
          ~matches[m].isActive => ~matches'[m].isActive
     /\ \A p \in Slots :
          (/\ slot[p].pc = "idle"
           /\ slot'[p].op = "unmatch"
           /\ slot'[p].matchId \in 1..Len(matches)
           /\ ~matches[slot'[p].matchId].isActive)
          => (/\ slot'[p].pc = "done"
              /\ slot'[p].status = 404
              /\ UNCHANGED <<users, matches, messages, emitted>>)]_vars

C8_Witness ==
  \E p \in Slots :
    /\ slot[p].pc = "done"
    /\ slot[p].op = "unmatch"
    /\ slot[p].status = 404
    /\ slot[p].matchId \in 1..Len(matches)
    /\ slot[p].user \in SeqToSet(matches[slot[p].matchId].users)
    /\ matches[slot[p].matchId].unmatchedBy # Nil
    /\ matches[slot[p].matchId].messages # <<>>

\* C9: while a match is inactive no step adds an id to its message list and
\* no step leaves a new active message of that match in the ledger.
C9_NoAppendAfterUnmatch ==
  [][\A m \in 1..Len(matches) :
       ~matches[m].isActive =>
         /\ matches'[m].messages = matches[m].messages
         /\ \A i \in 1..Len(messages') :
              (messages'[i].match = m /\ messages'[i].isActive)
              => (i <= Len(messages) /\ messages[i].isActive)]_vars

\* C10: requests run one after another.  When an unmatch of match M by A has
\* been answered with 200: M is inactive with unmatchedBy = A, M's id is in
\* neither participant's match list, every message of M is inactive and every
\* page of M's message listing is empty.
C10_UnmatchCascades ==
  \A p \in Slots :
    (slot[p].pc = "done" /\ slot[p].op = "unmatch" /\ slot[p].status = 200) =>
      LET m == slot[p].matchId IN
      /\ ~matches[m].isActive
      /\ matches[m].unmatchedBy = slot[p].user
      /\ \A u \in SeqToSet(matches[m].users) : m \notin SeqToSet(users[u].matches)
      /\ \A i \in 1..Len(messages) :
           messages[i].match = m => ~messages[i].isActive
      /\ \A page \in 1..MaxPage, limit \in 1..MaxLimit :
           GetMatchMessages(m, page, limit) = <<>>

C10_Witness ==
  \E p \in Slots :
    /\ slot[p].pc = "done" /\ slot[p].op = "unmatch" /\ slot[p].status = 200
    /\ Cardinality({i \in 1..Len(messages) :
                      messages[i].match = slot[p].matchId}) = 2

\* the three writes of an unmatch of match m have all landed
UnmatchComplete(m) ==
  /\ ~matches[m].isActive
  /\ \A u \in SeqToSet(matches[m].users) : m \notin SeqToSet(users[u].matches)
  /\ \A i \in 1..Len(messages) : messages[i].match = m => ~messages[i].isActive

\* C11: requests run one after another.  When an unmatch of match M has been
\* answered with an error, either M is fully unmatched (inactive, its id in
\* neither participant's list, all its messages inactive) or M is still active,
\* as before the request.
C11_UnmatchAllOrNothing ==
  \A p \in Slots :
    (slot[p].pc = "done" /\ slot[p].op = "unmatch" /\ slot[p].status = 500) =>
      \/ UnmatchComplete(slot[p].matchId)
      \/ matches[slot[p].matchId].isActive

\* C12: a match goes from active to inactive only in a step of an unmatch
\* request whose user is one of the match's users; an unmatch request whose
\* match does not exist, is inactive or does not list the requester is
\* answered 404 and leaves users, matches, messages and notifications as they
\* were.
C12_UnmatchNeedsActiveParticipant ==
  [][/\ \A m \in 1..Len(matches) :
          (matches[m].isActive /\ ~matches'[m].isActive) =>
            \E p \in Slots :
              /\ slot[p].op = "unmatch"
              /\ slot[p].matchId = m
              /\ slot[p].user \in SeqToSet(matches[m].users)
     /\ \A p \in Slots :
          (/\ slot[p].pc = "idle"
           /\ slot'[p].op = "unmatch"
           /\ ~(/\ slot'[p].matchId \in 1..Len(matches)
                /\ matches[slot'[p].matchId].isActive
                /\ slot'[p].user \in SeqToSet(matches[slot'[p].matchId].users)))
          => (/\ slot'[p].pc = "done"
              /\ slot'[p].status = 404
              /\ UNCHANGED <<users, matches, messages, emitted>>)]_vars

C12_Witness ==
  \E p \in Slots :
    /\ slot[p].pc = "done"
    /\ slot[p].op = "unmatch"
    /\ slot[p].status = 404
    /\ slot[p].matchId \in 1..Len(matches)
    /\ matches[slot[p].matchId].isActive
    /\ slot[p].user \notin SeqToSet(matches[slot[p].matchId].users)

\* C13: sender and recipient of every stored message differ and are together
\* exactly the users of the message's match; a send request for a match that
\* does not exist, is inactive or does not list the requester is rejected
\* (404, or 400 for a body the validator refuses) and stores nothing.
C13_MessageBetweenParticipants ==
  /\ [](\A i \in 1..Len(messages) :
          /\ messages[i].sender # messages[i].recipient
          /\ messages[i].match \in 1..Len(matches)
          /\ {messages[i].sender, messages[i].recipient} =
               SeqToSet(matches[messages[i].match].users))
  /\ [][\A p \in Slots :
          (/\ slot[p].pc = "idle"
           /\ slot'[p].op = "send"
           /\ ~(/\ slot'[p].matchId \in 1..Len(matches)
                /\ matches[slot'[p].matchId].isActive
                /\ slot'[p].user \in SeqToSet(matches[slot'[p].matchId].users)))
          => (/\ slot'[p].pc = "done"
              /\ slot'[p].status \in {400, 404}
              /\ UNCHANGED <<users, matches, messages, emitted>>)]_vars

C13_Witness ==
  /\ \E p \in Slots :
       /\ slot[p].pc = "done"
       /\ slot[p].op = "send"
       /\ slot[p].status = 404
       /\ slot[p].matchId \in 1..Len(matches)
       /\ matches[slot[p].matchId].isActive
       /\ slot[p].user \notin SeqToSet(matches[slot[p].matchId].users)
  /\ \E i \in 1..Len(messages) : messages[i].isActive

\* C14: requests run one after another.  Whenever receive_message or
\* message_sent has been emitted for a message, the message is stored and the
\* update of its match has succeeded: the message's id is in the match's
\* message list.
C14_SendStepsOrdered ==
  \A e \in emitted :
    e.event \in {"receive_message", "message_sent"} =>
      /\ e.ref \in 1..Len(messages)
      /\ e.ref \in SeqToSet(matches[messages[e.ref].match].messages)

\* C15: requests run one after another.  No step of an edit, a soft delete or
\* a mark-read request changes a match's message list, lastMessage or
\* lastActivity.
C15_OnlySendTouchesMatch ==
  [][\A p \in Slots :
       slot[p].op \in {"edit", "delete", "markRead"} =>
         \A m \in 1..Len(matches) :
           /\ matches'[m].messages = matches[m].messages
           /\ matches'[m].lastMessage = matches[m].lastMessage
           /\ matches'[m].lastActivity = matches[m].lastActivity]_vars

\* C16: requests run one after another.  Once a message is read, no step
\* changes its isRead or its readAt.
C16_MarkReadIdempotent ==
  [][\A i \in 1..Len(messages) :
       messages[i].isRead =>
         /\ messages'[i].isRead
         /\ messages'[i].readAt = messages[i].readAt]_vars

\* C17: requests run one after another.  An edit request with a content of 1
\* to 1000 characters goes on to its save if and only if the message exists,
\* the requester is its sender, it is active, its type is text and it was
\* created at most 15 minutes ago; every other edit request is answered 400 at
\* once and changes nothing.  The save of an edit changes the content and the
\* editedAt of that one message, and the steps of an edit request change
\* nothing else: no other message, no match, no user.
C17_EditOnlyOwnFreshText ==
  [][\A p \in Slots :
       /\ (slot[p].pc = "idle" /\ slot'[p].op = "edit") =>
            LET id == slot'[p].messageId
                allowed ==
                  /\ ContentLength(slot'[p].content) \in 1..MaxContentLength
                  /\ id \in 1..Len(messages)
                  /\ messages[id].sender = slot'[p].user
                  /\ messages[id].isActive
                  /\ messages[id].messageType = "text"
                  /\ now - messages[id].createdAt <= EditWindow
            IN /\ UNCHANGED <<users, matches, messages, emitted>>
               /\ IF allowed
                    THEN slot'[p].pc = "edit_save"
                    ELSE slot'[p].pc = "done" /\ slot'[p].status = 400
       /\ (slot[p].op = "edit" /\ slot'[p] # slot[p]) =>
            /\ UNCHANGED <<users, matches>>
            /\ IF slot[p].pc = "edit_save"
                 THEN /\ Len(messages') = Len(messages)
                      /\ \A j \in 1..Len(messages) :
                           messages'[j] =
                             IF j = slot[p].messageId
                               THEN [messages[j] EXCEPT
                                       !.content = Trim(slot[p].content),
                                       !.editedAt = slot[p].stamp]
                               ELSE messages[j]
                 ELSE messages' = messages]_vars

\* C18: requests run one after another.  A delete request goes on to its save
\* if and only if the message exists, is active and was sent by the requester;
\* every other delete request (a repeated one too) is answered 404 and changes
\* nothing.  The save keeps the message stored and sets only isActive to
\* false.  An inactive message never becomes active again, no reference
\* leaves a match's message list, and a listing never returns a message that
\* is inactive when the listing is read.
C18_SoftDeleteHides ==
  [][/\ \A p \in Slots :
          /\ (slot[p].pc = "idle" /\ slot'[p].op = "delete") =>
               LET id == slot'[p].messageId
                   allowed == /\ id \in 1..Len(messages)
                              /\ messages[id].sender = slot'[p].user
                              /\ messages[id].isActive
               IN /\ UNCHANGED <<users, matches, messages, emitted>>
                  /\ IF allowed
                       THEN slot'[p].pc = "delete_save"
                       ELSE slot'[p].pc = "done" /\ slot'[p].status = 404
          /\ (slot[p].pc = "delete_save" /\ slot'[p] # slot[p]) =>
               messages' = [messages EXCEPT ![slot[p].messageId].isActive = FALSE]
          /\ (slot[p].pc = "list_get" /\ slot'[p] # slot[p]) =>
               \A k \in 1..Len(slot'[p].result) :
                 messages[slot'[p].result[k].id].isActive
     /\ \A i \in 1..Len(messages) :
          ~messages[i].isActive => ~messages'[i].isActive
     /\ \A m \in 1..Len(matches) :
          SeqToSet(matches[m].messages) \subseteq SeqToSet(matches'[m].messages)]_vars

\* a second delete of a soft-deleted message of an active match was refused
C18_Witness ==
  \E p \in Slots :
    /\ slot[p].pc = "done"
    /\ slot[p].op = "delete"
    /\ slot[p].status = 404
    /\ slot[p].messageId \in 1..Len(messages)
    /\ messages[slot[p].messageId].sender = slot[p].user
    /\ ~messages[slot[p].messageId].isActive
    /\ matches[messages[slot[p].messageId].match].isActive
    /\ slot[p].messageId \in
         SeqToSet(matches[messages[slot[p].messageId].match].messages)

\* slot p holds an answered send of a text and slot q the answer to the next
\* request, a listing of the first page of the same match
SentThenListed(p, q) ==
  /\ p < q
  /\ slot[p].pc = "done" /\ slot[p].op = "send" /\ slot[p].status = 201
  /\ slot[p].messageType = "text"
  /\ slot[q].pc = "done" /\ slot[q].op = "list" /\ slot[q].status = 200
  /\ slot[q].matchId = slot[p].matchId
  /\ slot[q].page = 1

\* C19 as stated: requests run one after another.  The listing that follows a
\* send of a text with content c returns the message with content c, unread,
\* delivered and active.
C19_SentTextListedVerbatim ==
  \A p, q \in Slots :
    SentThenListed(p, q) =>
      \E k \in 1..Len(slot[q].result) :
        /\ slot[q].result[k].id = slot[p].messageId
        /\ slot[q].result[k].content = slot[p].content
        /\ ~slot[q].result[k].isRead
        /\ slot[q].result[k].isDelivered
        /\ slot[q].result[k].isActive

\* C19 amended: requests run one after another.  The listing that follows a
\* send of a text with content c returns the message with c stripped of its
\* leading and trailing blanks as content, unread, delivered and active.
C19_SentTextListedTrimmed ==
  \A p, q \in Slots :
    SentThenListed(p, q) =>
      \E k \in 1..Len(slot[q].result) :
        /\ slot[q].result[k].id = slot[p].messageId
        /\ slot[q].result[k].content = Trim(slot[p].content)
        /\ ~slot[q].result[k].isRead
        /\ slot[q].result[k].isDelivered
        /\ slot[q].result[k].isActive

\* the recipient has listed a padded text right after it was sent
C19_Witness ==
  \E p, q \in Slots :
    /\ SentThenListed(p, q)
    /\ slot[p].content = " hi "
    /\ slot[q].user = slot[p].recipient
    /\ \E k \in 1..Len(slot[q].result) :
         /\ slot[q].result[k].id = slot[p].messageId
         /\ slot[q].result[k].content = "hi"
         /\ ~slot[q].result[k].isRead
    /\ messages[slot[p].messageId].isRead

\* the body of a send request lacks what its message type requires
BadPayload(s) ==
  \/ s.messageType = "text" /\ ContentLength(Trim(s.content)) \notin 1..MaxContentLength
  \/ s.messageType = "image" /\ ~s.imageUrl
  \/ s.messageType = "gif" /\ ~s.gifUrl

\* C20: every stored message has what its type requires, a text a content of
\* 1 to 1000 characters, an image its imageUrl, a gif its gifUrl, whatever
\* sends and edits have run; a send request whose body lacks it is answered
\* with an error at once, and users, matches, messages and notifications stay
\* as they were.
C20_PayloadMatchesType ==
  /\ [](\A i \in 1..Len(messages) :
          /\ messages[i].messageType = "text" =>
               ContentLength(messages[i].content) \in 1..MaxContentLength
          /\ messages[i].messageType = "image" => messages[i].imageUrl
          /\ messages[i].messageType = "gif" => messages[i].gifUrl)
  /\ [][\A p \in Slots :
          (slot[p].pc = "idle" /\ slot'[p].op = "send" /\ BadPayload(slot'[p]))
          => (/\ slot'[p].pc = "done"
              /\ slot'[p].status \in {400, 404}
              /\ UNCHANGED <<users, matches, messages, emitted>>)]_vars

\* after an accepted edit, a too long text for the same active match was refused
C20_Witness ==
  \E p, q \in Slots :
    /\ slot[q].pc = "done" /\ slot[q].op = "edit" /\ slot[q].status = 200
    /\ messages[slot[q].messageId].content = "yo"
    /\ slot[p].pc = "done" /\ slot[p].op = "send" /\ slot[p].status = 400
    /\ slot[p].content = LongContent
    /\ slot[p].matchId = messages[slot[q].messageId].match
    /\ matches[slot[p].matchId].isActive
    /\ slot[p].user \in SeqToSet(matches[slot[p].matchId].users)

\* C21: a send with a replyTo goes on to store its message only if, when the
\* route looks it up, replyTo names a stored, active message of the request's
\* match; otherwise it is answered 404 and stores nothing.  In every state a
\* message's replyTo, when present, names a stored message of the same match.
C21_ReplyWithinMatch ==
  /\ [](\A i \in 1..Len(messages) :
          messages[i].replyTo # Nil =>
            /\ messages[i].replyTo \in 1..Len(messages)
            /\ messages[messages[i].replyTo].match = messages[i].match)
  /\ [][\A p \in Slots :
          (slot[p].pc = "send_findReply" /\ slot'[p] # slot[p]) =>
            LET r == slot[p].replyTo
                found == /\ r \in 1..Len(messages)
                         /\ messages[r].match = slot[p].matchId
                         /\ messages[r].isActive
            IN IF found
                 THEN slot'[p].pc = "send_save"
                 ELSE /\ slot'[p].pc = "done"
                      /\ slot'[p].status = 404
                      /\ UNCHANGED <<users, matches, messages, emitted>>]_vars

\* a reply to a message of the other match was refused and a reply within the
\* match was stored
C21_Witness ==
  \E p, q \in Slots :
    /\ slot[p].pc = "done" /\ slot[p].op = "send" /\ slot[p].status = 404
    /\ slot[p].replyTo \in 1..Len(messages)
    /\ messages[slot[p].replyTo].isActive
    /\ messages[slot[p].replyTo].match # slot[p].matchId
    /\ FindUserMatch(slot[p].matchId, slot[p].user)
    /\ slot[q].pc = "done" /\ slot[q].op = "send" /\ slot[q].status = 201
    /\ messages[slot[q].messageId].replyTo # Nil

\* the step of a handler that emits its notification and answers
RespondPcs ==
  {"swipe_respond", "unmatch_respond", "respond_send", "respond_delete",
   "respond_edit", "respond_markRead", "readAll_respond"}

\* the answer of that step, read off the request and the stored state alone
RespondStatus(p) ==
  CASE slot[p].pc = "respond_send" -> 201
    [] slot[p].pc \in {"unmatch_respond", "readAll_respond"} ->
         IF OtherUser(slot[p].matchId, slot[p].user) = Nil THEN 500 ELSE 200
    [] OTHER -> 200

\* C22: requests run one after another while connections join, leave and send.
\* The step in which a handler notifies a user answers with the same status and
\* leaves users, matches and messages as stored, whoever is or is not in the
\* notified room, and no step of a handler changes the rooms.  What a handler
\* emits is delivered in that step to connections then in the room and to
\* nobody else, so an emit to a room with no connection delivers nothing, and
\* a join or a disconnect delivers nothing and changes nothing stored.
C22_PersistenceIgnoresConnections ==
  [][/\ \A p \in Slots :
          (slot'[p] # slot[p]) =>
            /\ rooms' = rooms
            /\ received \subseteq received'
            /\ \A r \in received' \ received :
                 /\ <<r.conn, r.room>> \in rooms
                 /\ [room |-> r.room, event |-> r.event, ref |-> r.ref]
                      \in emitted'
            /\ slot[p].pc \in RespondPcs =>
                 /\ slot'[p].pc = "done"
                 /\ slot'[p].status = RespondStatus(p)
                 /\ UNCHANGED <<users, matches, messages>>
     /\ rooms' # rooms =>
          /\ received' = received
          /\ UNCHANGED <<users, matches, messages, emitted, slot>>]_vars

\* a send was answered 201 while only the recipient was connected: the
\* recipient's connection got receive_message, and the connection that joined
\* the sender's room afterwards got nothing
C22_Witness ==
  \E p \in Slots, e \in emitted :
    /\ slot[p].pc = "done" /\ slot[p].op = "send" /\ slot[p].status = 201
    /\ e.event = "message_sent" /\ e.ref = slot[p].messageId
    /\ <<2, e.room>> \in rooms
    /\ \A r \in received : r.conn # 2
    /\ \E r \in received :
         r.conn = 1 /\ r.event = "receive_message" /\ r.ref = slot[p].messageId

\* C28: every receive_message delivered to a connection in the room of user U
\* is about a stored message whose recipient is U and whose sender is the other
\* user of the message's match.
C28_ReceiveMessageIsStored ==
  \A r \in received :
    r.event = "receive_message" =>
      /\ r.ref \in 1..Len(messages)
      /\ ObjectIdToString(messages[r.ref].recipient) = r.room
      /\ messages[r.ref].sender =
           OtherUser(messages[r.ref].match, messages[r.ref].recipient)

\* requests that address a match, and requests that address a message
MatchOps == {"send", "readAll", "unmatch", "getMatch"}
MessageOps == {"markRead", "edit", "delete"}

\* request s has a body its validator accepts
BodyAccepted(s) ==
  /\ s.op = "send" =>
       ValidationOk([content |-> s.content, messageType |-> s.messageType])
  /\ s.op = "edit" => IsLengthOk(s.content)

\* the match or message that request s addresses does not exist
TargetMissing(s) ==
  \/ s.op \in MatchOps /\ s.matchId \notin 1..Len(matches)
  \/ s.op \in MessageOps /\ s.messageId \notin 1..Len(messages)

\* it exists, but the requester is not a user of the match, not the recipient
\* of the message to be marked read, not the sender of the message to be
\* edited or deleted
NotEntitled(s) ==
  \/ /\ s.op \in MatchOps
     /\ s.matchId \in 1..Len(matches)
     /\ s.user \notin SeqToSet(matches[s.matchId].users)
  \/ /\ s.op = "markRead"
     /\ s.messageId \in 1..Len(messages)
     /\ messages[s.messageId].recipient # s.user
  \/ /\ s.op \in {"edit", "delete"}
     /\ s.messageId \in 1..Len(messages)
     /\ messages[s.messageId].sender # s.user

\* C23: requests run one after another.  A send, mark-read, read-all, edit,
\* delete, unmatch or match-detail request with an accepted body whose match
\* or message does not exist, or exists but is not the requester's, is
\* answered at once with an error and changes nothing; and of two answered
\* requests of the same kind, one for a missing target and one for a target
\* that is not the requester's, the status and the message are the same.
C23_MissingLikeForbidden ==
  /\ [](\A p, q \in Slots :
          (/\ slot[p].pc = "done" /\ slot[q].pc = "done"
           /\ slot[p].op = slot[q].op
           /\ BodyAccepted(slot[p]) /\ BodyAccepted(slot[q])
           /\ TargetMissing(slot[p])
           /\ NotEntitled(slot[q]))
          => /\ slot[p].status = slot[q].status
             /\ slot[p].message = slot[q].message)
  /\ [][\A p \in Slots :
          (/\ slot[p].pc = "idle"
           /\ slot'[p].pc # "idle"
           /\ BodyAccepted(slot'[p])
           /\ TargetMissing(slot'[p]) \/ NotEntitled(slot'[p]))
          => (/\ slot'[p].pc = "done"
              /\ slot'[p].status \in {400, 404}
              /\ UNCHANGED <<users, matches, messages, emitted>>)]_vars

\* an edit of a message that does not exist and an edit by the recipient of a
\* message that does were both refused
C23_Witness ==
  \E p, q \in Slots :
    /\ slot[p].pc = "done" /\ slot[q].pc = "done"
    /\ slot[p].op = "edit" /\ slot[q].op = "edit"
    /\ TargetMissing(slot[p])
    /\ NotEntitled(slot[q])
    /\ messages[slot[q].messageId].isActive
    /\ slot[q].status = 400
    /\ slot[q].message = "Message not found or unauthorized"

\* C24: the users a discover request returns for actor U are at most as many
\* as the limit (10 when none is given), and each of them is not U, is not in
\* U's swipe list, is active, has an age within U's age range and, unless U
\* is interested in both, has the gender U is interested in.
C24_DiscoverFilters ==
  \A p \in Slots :
    (slot[p].op = "discover" /\ slot[p].pc = "done" /\ slot[p].status = 200)
    => LET U == slot[p].reqUser
           r == slot[p].result IN
       /\ Len(r) <= slot[p].limit
       /\ \A i \in 1..Len(r) :
            /\ r[i] # slot[p].user
            /\ \A k \in 1..Len(U.swipedUsers) : U.swipedUsers[k].userId # r[i]
            /\ users[r[i]].isActive
            /\ users[r[i]].age >= U.ageRange.min
            /\ users[r[i]].age <= U.ageRange.max
            /\ U.interestedIn # "both" => users[r[i]].gender = U.interestedIn

\* an actor with the range 18 to 35 who is interested in women got the woman
\* of 25 and not the woman of 40, and a request with limit 1 for which two
\* users qualified got one
C24_Witness ==
  \E p, q \in Slots :
    /\ slot[p].op = "discover" /\ slot[p].pc = "done" /\ slot[p].status = 200
    /\ slot[p].user = 1
    /\ users[1].ageRange.max = 35 /\ users[1].interestedIn = "female"
    /\ users[2].age = 40 /\ users[2].gender = "female" /\ users[2].isActive
    /\ users[3].age = 25
    /\ slot[p].result = <<3>>
    /\ slot[q].op = "discover" /\ slot[q].pc = "done" /\ slot[q].status = 200
    /\ slot[q].limit = 1
    /\ Len(slot[q].result) = 1
    /\ Cardinality({c \in DOMAIN users :
                      PotentialMatch(slot[q].reqUser, slot[q].user, c)}) = 2

\* C25: in every reachable state, with upload, delete and set-main requests
\* of one user running at the same time, at most one photo of a user is
\* flagged as the main one.
C25_AtMostOneMain ==
  \A u \in UserIds :
    Cardinality({i \in 1..Len(users[u].photos) :
                   users[u].photos[i].isMain}) <= 1

\* C27: when two sends into the same match run at the same time and both are
\* answered with 201, the match's message list holds the ids of both
\* messages; and each send's update of the match appends its id to the list
\* as stored at that moment and makes it the lastMessage, so that the
\* lastMessage is the id of the update written last.
C27_ConcurrentSendsBothListed ==
  /\ [](\A p, q \in Slots :
          (/\ p # q
           /\ slot[p].op = "send" /\ slot[q].op = "send"
           /\ slot[p].pc = "done" /\ slot[q].pc = "done"
           /\ slot[p].status = 201 /\ slot[q].status = 201
           /\ slot[p].matchId = slot[q].matchId)
          => /\ slot[p].messageId # slot[q].messageId
             /\ {slot[p].messageId, slot[q].messageId}
                  \subseteq SeqToSet(matches[slot[p].matchId].messages))
  /\ [][\A p \in Slots :
          (/\ slot[p].op = "send"
           /\ slot[p].pc = "postSave_addMessage"
           /\ slot'[p].pc # "postSave_addMessage")
          => /\ matches'[slot[p].matchId].messages =
                  Append(matches[slot[p].matchId].messages, slot[p].messageId)
             /\ matches'[slot[p].matchId].lastMessage = slot[p].messageId]_vars

\* two sends into one match ran at the same time and were answered with 201;
\* the message stored first was the last to update the match
C27_Witness ==
  \E p, q \in Slots :
    /\ slot[p].op = "send" /\ slot[q].op = "send"
    /\ slot[p].pc = "done" /\ slot[q].pc = "done"
    /\ slot[p].status = 201 /\ slot[q].status = 201
    /\ slot[p].matchId = slot[q].matchId
    /\ slot[p].messageId < slot[q].messageId
    /\ matches[slot[p].matchId].lastMessage = slot[p].messageId
    /\ {slot[p].messageId, slot[q].messageId}
         \subseteq SeqToSet(matches[slot[p].matchId].messages)

\* C30: when the listing of a match's messages by participant U (any page and
\* limit) has marked the messages read, no active message of the match with
\* recipient U is unread, on the returned page or not, and the messages with
\* another recipient have the isRead they had; and no step takes a message's
\* isRead from true back to false.
C30_ListingMarksAllRead ==
  [][/\ \A p \in Slots :
          (slot[p].pc = "list_markRead" /\ slot'[p].pc = "list_respond")
          => /\ Len(messages') = Len(messages)
             /\ \A i \in 1..Len(messages') :
                  /\ (/\ messages'[i].match = slot[p].matchId
                      /\ messages'[i].recipient = slot[p].user
                      /\ messages'[i].isActive)
                     => messages'[i].isRead
                  /\ messages'[i].recipient # slot[p].user
                     => messages'[i].isRead = messages[i].isRead
     /\ \A i \in 1..Len(messages) :
          messages[i].isRead => messages'[i].isRead]_vars

\* a listing with limit 1 was answered with one message, and two active
\* messages of the match to the requester are read
C30_Witness ==
  \E p \in Slots :
    /\ slot[p].op = "list" /\ slot[p].pc = "done" /\ slot[p].status = 200
    /\ slot[p].limit = 1 /\ Len(slot[p].result) = 1
    /\ Cardinality({i \in 1..Len(messages) :
                      /\ messages[i].match = slot[p].matchId
                      /\ messages[i].recipient = slot[p].user
                      /\ messages[i].isActive
                      /\ messages[i].isRead}) = 2

\* C29: in every state with no request in flight, a match is active if and
\* only if its id is in the match list of both of its users, and its id is in
\* the match list of no other user; also when the creation of the match was
\* interrupted by a write that failed.
C29_MatchListsAgree ==
  (\A p \in Slots : slot[p].pc \in {"idle", "done"})
  => \A m \in 1..Len(matches) :
       /\ matches[m].isActive <=>
            \A u \in SeqToSet(matches[m].users) : m \in SeqToSet(users[u].matches)
       /\ \A u \in UserIds \ SeqToSet(matches[m].users) :
            m \notin SeqToSet(users[u].matches)

\* slots p and q hold answered likes of two different users for each other
ReciprocalLikes(p, q) ==
  /\ p # q
  /\ slot[p].op = "swipe" /\ slot[q].op = "swipe"
  /\ slot[p].action = "like" /\ slot[q].action = "like"
  /\ slot[p].pc = "done" /\ slot[q].pc = "done"
  /\ slot[p].status = 200 /\ slot[q].status = 200
  /\ slot[p].user # slot[q].user
  /\ slot[p].targetUserId = ObjectIdToString(slot[q].user)
  /\ slot[q].targetUserId = ObjectIdToString(slot[p].user)

MatchOfPair(a, b) ==
  \E m \in 1..Len(matches) : SeqToSet(matches[m].users) = {a, b}

\* both likes were answered without a match and no match of the two exists
BothMissed ==
  \E p, q \in Slots :
    /\ ReciprocalLikes(p, q)
    /\ ~slot[p].resMatch /\ ~slot[q].resMatch
    /\ ~MatchOfPair(slot[p].user, slot[q].user)

\* a step of a swipe request
SwipeSteps == \E p \in Slots : Swipe(p)

\* BothMissed can be reached with at most n steps of the swipe requests
CanMiss0 == BothMissed
CanMiss1 == CanMiss0 \/ ENABLED (SwipeSteps /\ CanMiss0')
CanMiss2 == CanMiss1 \/ ENABLED (SwipeSteps /\ CanMiss1')
CanMiss3 == CanMiss2 \/ ENABLED (SwipeSteps /\ CanMiss2')
CanMiss4 == CanMiss3 \/ ENABLED (SwipeSteps /\ CanMiss3')
CanMiss5 == CanMiss4 \/ ENABLED (SwipeSteps /\ CanMiss4')
CanMiss6 == CanMiss5 \/ ENABLED (SwipeSteps /\ CanMiss5')

\* two likes of users 1 and 2 for each other have both passed the auth
\* middleware and nothing else has happened
LikesInFlight ==
  /\ \A u \in UserIds : users[u].swipedUsers = <<>>
  /\ \E p, q \in Slots :
       /\ p # q
       /\ slot[p].pc = "swipe_findTarget" /\ slot[q].pc = "swipe_findTarget"
       /\ slot[p].action = "like" /\ slot[q].action = "like"
       /\ slot[p].user # slot[q].user
       /\ slot[p].targetUserId = ObjectIdToString(slot[q].user)
       /\ slot[q].targetUserId = ObjectIdToString(slot[p].user)

\* C26 (as stated): there is an interleaving of two likes of two users for each
\* other, run at the same time, in which both are answered without a match
\* and no match of the two is created.  Each request takes three steps to such
\* an answer.
C26_BothCanMiss == LikesInFlight => CanMiss6

\* C26 (amended): in every interleaving of two likes of two users for each
\* other, at least one of the two requests finds the other's like, and when
\* both are answered a match of the two exists.
C26_OneLikeIsSeen ==
  \A p, q \in Slots :
    ReciprocalLikes(p, q)
    => /\ slot[p].resMatch \/ slot[q].resMatch
       /\ MatchOfPair(slot[p].user, slot[q].user)

\* the two likes ran at the same time: both found the other's like and each
\* created a match
C26_Witness ==
  \E p, q \in Slots :
    /\ ReciprocalLikes(p, q)
    /\ slot[p].resMatch /\ slot[q].resMatch
    /\ slot[p].matchId # slot[q].matchId

====
